---------------------------- MODULE Spec2Model ----------------------------
(***************************************************************************)
(* Device connectivity and firmware delivery subsystem of MAKCU_AIO.       *)
(*                                                                         *)
(* Three state machines share this module, each with its own               *)
(* specification:                                                          *)
(*   SpecCodec    - SerialHandler.handle_incoming_data / parse_uart_frames *)
(*                  fed a framed byte stream in chunks;                    *)
(*   SpecFlash    - Flasher.flash_firmware_thread running against the      *)
(*                  threads of SerialHandler (monitor_ports,               *)
(*                  serial_communication_thread);                          *)
(*   SpecDownload - ConfigManager.download_all_files_async.                *)
(* A specification leaves the variables of the other machines unchanged.   *)
(***************************************************************************)
EXTENDS Integers, Sequences, FiniteSets, TLC

VARIABLES
    \* ---- frame codec (serial_handler.py) ----
    wire,               \* bytes the device has sent that the read task has not read yet
    sent,               \* the frames the device sent, in order (history)
    buffer,             \* SerialHandler.buffer
    log,                \* lines handed to logger.terminal_print by parse_uart_frames
    \* ---- link manager (serial_handler.py) ----
    monitoring_active,  \* SerialHandler.monitoring_active
    monitoring_thread,  \* SerialHandler.monitoring_thread: a monitor thread id, 0 = None
    mon,                \* per monitor_ports thread: [pc, attempt, com_port, mode]
    monCrashed,         \* a monitor_ports thread died on an unhandled exception (history)
    readers,            \* number of live serial_communication_thread threads
    is_connected,       \* SerialHandler.is_connected
    serial_open,        \* SerialHandler.serial_open
    serial_connection,  \* SerialHandler.serial_connection: "None" or "open"
    sh_is_flashing,     \* SerialHandler.is_flashing
    sh_flashing_lock,   \* SerialHandler.flashing_lock: <<"free", 0>> or who acquired it
    ports,              \* hardware ids <<vid, pid>> of the enumerated ports (environment)
    com_port,           \* SerialHandler.com_port: the port opened last, by its hardware id
    current_mode,       \* SerialHandler.current_mode
    seen,               \* the ports enumerated at the scan that last called auto_connect (history)
    response_callback,  \* SerialHandler.response_callback: "unset" until send_command creates it
    mcu_status,         \* what update_mcu_status last showed the observer: "none" before any call
    reply,              \* the device's latest reply to km.version(): "none", "sent"
                        \* (waiting in the port), "read" (taken by the read task)
    tx,                 \* the last send: [data, written], the bytes given to
                        \* serial_connection.write
    \* ---- flash orchestrator (flasher.py) ----
    fl_is_flashing,     \* Flasher.is_flashing
    fl_flashing_lock,   \* Flasher.flashing_lock: 0 = free, else the job holding it
    job,                \* per flash request: [pc, contended, entered, outcome]
    proc,               \* per flash request: its esptool process, "none"/"running"/"exited"
    \* ---- download orchestrator (config_manager.py) ----
    preferred_server,   \* ConfigManager.preferred_server
    remote,             \* the manifest document the mirrors serve (environment)
    local_config,       \* the file at LOCAL_CONFIG_PATH: [exists, data]
    disk,               \* per firmware filename, the file at get_download_path(filename)
    config_data,        \* ConfigManager.config_data
    config_lock,        \* ConfigManager.config_lock: "free" or "pipeline"
    cm_is_online,       \* ConfigManager.is_online
    download_successful,\* ConfigManager.download_successful
    download_complete,  \* ConfigManager.download_complete (threading.Event)
    bin_file_urls,      \* ConfigManager.bin_file_urls
    side_to_filename,   \* ConfigManager.side_to_filename
    bin_files_downloaded, \* ConfigManager.bin_files_downloaded
    dl,                 \* download_all_files_async: [pc, mirror, attempt, step]
    asset,              \* per filename, its download_file_async task
    cached,             \* config_data as the constructor left it (history)
    manifestFailed,     \* the manifest fetch failed on both mirrors (history)
    cfgLog,             \* manifest fetch attempts made: <<server, succeeded>> (history)
    assetLog,           \* per filename, fetch attempts made (history)
    \* ---- version comparison (updater.py) ----
    latest,             \* is_different_version: argument latest
    current,            \* is_different_version: argument current
    differs,            \* is_different_version: "True"/"False" returned, "none" before the call
    \* ---- flash request for a side (flasher.py download_and_flash) ----
    daf,                \* the task of download_and_flash: position, values read, outcome
    \* ---- send_command / read_response called by a client (serial_handler.py) ----
    calls,              \* the callbacks given to send_command, in call order (history)
    invoked,            \* the callbacks read_response has called, in order (history)
    rr,                 \* the read_response call: [pc, last]
    \* ---- update check (updater.py check_for_updates) ----
    upd,                \* the task of check_for_updates: position, values read, outcome
    \* ---- one pass of parse_uart_frames, iteration by iteration ----
    scan,               \* [pc, pieces, data, index, lines]
    \* ---- ConfigManager._select_fastest_server ----
    probe,              \* [pc, lat, results, fastest]
    \* ---- the programmer run of flash_firmware_thread and what it reports ----
    out,                \* [pc, returncode, success_detected,
                        \*  bootloader_warning_detected, process_failed, read, lines]
    \* ---- the application window (gui.py) ----
    app                 \* "running", or "quit" once quit_application has returned

codecVars == <<wire, sent, buffer, log>>

linkVars == <<monitoring_active, monitoring_thread, mon, monCrashed, readers,
              is_connected, serial_open, serial_connection, sh_is_flashing,
              sh_flashing_lock, ports, com_port, current_mode, seen,
              response_callback, mcu_status, reply, tx>>

cmdVars == <<response_callback, mcu_status, reply, tx>>

portVars == <<ports, com_port, current_mode, seen>>

flasherVars == <<fl_is_flashing, fl_flashing_lock, job, proc>>

downloadVars == <<preferred_server, remote, local_config, disk, config_data,
                  config_lock, cm_is_online, download_successful, download_complete,
                  bin_file_urls, side_to_filename, bin_files_downloaded, dl, asset,
                  cached, manifestFailed, cfgLog, assetLog>>

versionVars == <<latest, current, differs>>

\* the machines added to the module after the first four
apiVars == <<calls, invoked, rr>>

\* the link manager's variables other than the pending slot
handlerVars == <<monitoring_active, monitoring_thread, mon, monCrashed, readers,
                 is_connected, serial_open, serial_connection, sh_is_flashing,
                 sh_flashing_lock, portVars, mcu_status, reply>>

extraVars == <<scan, probe, out, app>>

tailVars == <<apiVars, upd, extraVars>>

restVars == <<versionVars, daf, tailVars>>

vars == <<codecVars, linkVars, flasherVars, downloadVars, restVars>>

-----------------------------------------------------------------------------
(***************************************************************************)
(* Generic helpers                                                         *)
(***************************************************************************)
Min(a, b) == IF a <= b THEN a ELSE b

SeqsUpTo(S, n) == UNION {[1..k -> S] : k \in 0..n}

RECURSIVE Concat(_)
Concat(ss) == IF ss = <<>> THEN <<>> ELSE Head(ss) \o Concat(Tail(ss))

\* Python's s[i:j] for 0 <= i (0-based, half-open, clamped at len(s)).
Slice(s, i, j) == SubSeq(s, i + 1, Min(j, Len(s)))

\* Python's bytes.find(sub, start): lowest index >= start where sub occurs, or -1.
Find(data, sub, start) ==
    LET hits == {i \in start..(Len(data) - Len(sub)) : Slice(data, i, i + Len(sub)) = sub}
    IN  IF hits = {} THEN -1 ELSE CHOOSE i \in hits : \A k \in hits : i <= k

-----------------------------------------------------------------------------
(***************************************************************************)
(* Frame codec: SerialHandler.parse_uart_frames and handle_incoming_data   *)
(***************************************************************************)
KM     == <<107, 109, 46>>     \* b'km.'
CR     == <<13>>               \* b'\r'
DEAD   == <<222, 173>>         \* b'\xDE\xAD'

\* bytes.decode('utf-8', errors='ignore') on byte strings whose lead bytes are
\* ASCII or two-byte leads (0xC2..0xDF): an ASCII byte is its own code point, a
\* lead followed by a continuation byte (0x80..0xBF) is one code point, any
\* other byte is invalid and dropped.
RECURSIVE Utf8Ignore(_)
Utf8Ignore(bs) ==
    IF bs = <<>> THEN <<>>
    ELSE LET b == Head(bs) IN
         IF b < 128 THEN <<b>> \o Utf8Ignore(Tail(bs))
         ELSE IF /\ b >= 194 /\ b <= 223
                 /\ Len(bs) >= 2 /\ bs[2] >= 128 /\ bs[2] <= 191
              THEN <<(b - 192) * 64 + (bs[2] - 128)>> \o Utf8Ignore(Tail(Tail(bs)))
              ELSE Utf8Ignore(Tail(bs))

\* struct.unpack('<H', two bytes)
UnpackU16LE(two) == two[1] + 256 * two[2]

\* The while loop of parse_uart_frames from `index`; the value is the sequence
\* of lines it hands to logger.terminal_print.
RECURSIVE ParseFrom(_, _)
ParseFrom(data, index) ==
    IF index >= Len(data) THEN <<>>
    ELSE IF Slice(data, index, index + 3) = KM THEN
        LET end_index == Find(data, CR, index) IN
        IF end_index # -1
        THEN <<Utf8Ignore(Slice(data, index, end_index + 1))>>
                 \o ParseFrom(data, end_index + 1)
        ELSE <<>>                                   \* incomplete frame: break
    ELSE IF Slice(data, index, index + 2) = DEAD THEN
        IF index + 4 <= Len(data) THEN
            LET size      == UnpackU16LE(Slice(data, index + 2, index + 4))
                end_index == index + 4 + size
            IN  IF end_index <= Len(data)
                THEN <<Utf8Ignore(Slice(data, index + 4, end_index))>>
                         \o ParseFrom(data, end_index)
                ELSE <<>>                           \* incomplete frame: break
        ELSE <<>>                                   \* incomplete header: break
    ELSE
        LET next_km   == Find(data, KM, index + 1)
            next_dead == Find(data, DEAD, index + 1)
        IN  IF next_km = -1 /\ next_dead = -1 THEN <<>>
            ELSE IF next_km = -1 THEN ParseFrom(data, next_dead)
            ELSE IF next_dead = -1 THEN ParseFrom(data, next_km)
            ELSE ParseFrom(data, Min(next_km, next_dead))

ParseUartFrames(data) == ParseFrom(data, 0)

\* buffer[len(buffer):] in the finally clause of handle_incoming_data
TrimProcessed(buf) == Slice(buf, Len(buf), Len(buf))

\* ---- the device side: well-formed frames ----
MaxBody    == 1     \* longest text-frame body (between 'km.' and CR)
MaxPayload == 1     \* longest binary-frame payload
MaxFrames  == 2     \* frames the device sends in one run

TextAlphabet == {97, 222}      \* body bytes of text frames: 'a', 0xDE (never CR)
PayAlphabet  == {13, 173}      \* payload bytes of binary frames: CR, 0xAD

TextFrame(body)   == KM \o body \o CR
BinFrame(payload) ==
    DEAD \o <<Len(payload) % 256, (Len(payload) \div 256) % 256>> \o payload

\* A frame the device sends: its bytes on the wire and the unit the decoder
\* must surface for it.
Frames ==
    {[bytes |-> TextFrame(b), unit |-> Utf8Ignore(TextFrame(b))] :
        b \in SeqsUpTo(TextAlphabet, MaxBody)}
    \cup
    {[bytes |-> BinFrame(p), unit |-> Utf8Ignore(p)] :
        p \in SeqsUpTo(PayAlphabet, MaxPayload)}

WireOf(fs)  == Concat([i \in 1..Len(fs) |-> fs[i].bytes])
UnitsOf(fs) == [i \in 1..Len(fs) |-> fs[i].unit]

\* serial_communication_thread reads the n bytes waiting on the port and calls
\* handle_incoming_data(data).
HandleIncomingData(n) ==
    /\ n \in 1..Len(wire)
    /\ LET data == SubSeq(wire, 1, n)
           buf  == buffer \o data                    \* self.buffer.extend(data)
       IN  /\ log' = log \o ParseUartFrames(buf)
           /\ buffer' = TrimProcessed(buf)
    /\ wire' = SubSeq(wire, n + 1, Len(wire))
    /\ UNCHANGED <<sent, linkVars, flasherVars, downloadVars, restVars>>

-----------------------------------------------------------------------------
(***************************************************************************)
(* Link manager threads: SerialHandler.monitor_ports, auto_connect,        *)
(* serial_communication_thread, handle_disconnect                          *)
(***************************************************************************)
MaxJobs == 2                    \* flash requests made in one run
RetryAttempts == 5              \* auto_connect(retry_attempts=5)

\* SerialHandler.KNOWN_DEVICES, in table order
KNOWN_DEVICES ==
    << [vid |-> "0403", pid |-> "6001", mode |-> "Normal"],
       [vid |-> "1A86", pid |-> "55D3", mode |-> "Normal"],
       [vid |-> "303A", pid |-> "0009", mode |-> "Flash"],
       [vid |-> "303A", pid |-> "1001", mode |-> "Flash"] >>

\* Hardware ids a port can show: those of the table and one of another device
HwIds == {<<KNOWN_DEVICES[i].vid, KNOWN_DEVICES[i].pid>> : i \in DOMAIN KNOWN_DEVICES}
            \cup {<<"10C4", "EA60">>}

\* The port of the board in the flash scenarios
FlashPorts == {<<"303A", "1001">>}

NoPort == <<"", "">>            \* com_port = ""

\* find_com_port(vid, pid): a port whose hwid holds VID:PID=vid:pid, or None
FindComPort(enumerated, vid, pid) ==
    IF <<vid, pid>> \in enumerated THEN <<vid, pid>> ELSE NoPort

\* monitor_ports: `for device in self.KNOWN_DEVICES` up to the first entry for
\* which find_com_port returns a port (0: none does). The enumeration is taken
\* not to change within the few milliseconds of one scan.
RECURSIVE ScanFrom(_, _)
ScanFrom(enumerated, i) ==
    IF i > Len(KNOWN_DEVICES) THEN 0
    ELSE IF FindComPort(enumerated, KNOWN_DEVICES[i].vid, KNOWN_DEVICES[i].pid) # NoPort
         THEN i
         ELSE ScanFrom(enumerated, i + 1)

\* (a scan that keeps going after a match and so ends on the last one)
FirstMatch_Last(enumerated) ==
    LET hits == {i \in DOMAIN KNOWN_DEVICES :
                   FindComPort(enumerated, KNOWN_DEVICES[i].vid, KNOWN_DEVICES[i].pid) # NoPort}
    IN  IF hits = {} THEN 0 ELSE CHOOSE i \in hits : \A k \in hits : k <= i

FirstMatch(enumerated) == ScanFrom(enumerated, 1)

Jobs   == 1..MaxJobs
\* start_monitoring creates a thread per call that finds monitoring inactive:
\* once at start-up and at most once per flash job.
MonIds == 1..(MaxJobs + 1)

MonAlive(t) == mon[t].pc # "none"           \* Thread.is_alive()
LockFree    == sh_flashing_lock = <<"free", 0>>    \* not flashing_lock.locked()

\* A monitor_ports thread moves on; com_port and mode are the arguments of
\* the auto_connect call it is in, if any.
SetMon(t, pc, attempt) ==
    mon' = [mon EXCEPT ![t] = [pc |-> pc, attempt |-> attempt,
                               com_port |-> IF pc = "connect" THEN @.com_port ELSE NoPort,
                               mode |-> IF pc = "connect" THEN @.mode ELSE "Normal"]]

NoTx == [data |-> <<>>, written |-> <<>>]

\* write_to_serial_with_size: nothing is written without an open port;
\* serial_connection.write raises when the device behind the port is gone,
\* and the except clause logs the error and returns.
WriteRaises == serial_connection = "open" /\ com_port \notin ports

\* (a send_command that leaves a callback that is still pending in place)
SendCommand_KeepPending(callback) ==
    response_callback' = (IF response_callback \in {"unset", "None"} THEN callback
                                                                    ELSE response_callback)

\* send_command(command, payload, callback): the callback is stored in the
\* slot before the frame is written with write_to_serial_with_size, whether
\* the write then succeeds, raises or is not attempted.
SendCommand(callback) ==
    response_callback' = callback

\* header + bytes([lsb, msb]) + data of write_to_serial_with_size(size, data),
\* with lsb = size & 0xFF and msb = (size >> 8) & 0xFF
FrameWithSize(size, data) ==
    DEAD \o <<size % 256, (size \div 256) % 256>> \o data

\* write_to_serial(data): size = len(data)
WriteToSerialFrame(data) == FrameWithSize(Len(data), data)

\* send_command: size = len(payload) + 1, data = bytes(command) + payload
SendCommandFrame(command, payload) ==
    FrameWithSize(Len(payload) + 1, command \o payload)

\* b'km.version()'
KmVersion == <<107, 109, 46, 118, 101, 114, 115, 105, 111, 110, 40, 41>>

\* serial_connection.write(frame) in write_to_serial and
\* write_to_serial_with_size: made on an open port only, and nothing is
\* written when it raises.
Transmit(data, frame) ==
    tx' = IF serial_connection = "open" /\ ~WriteRaises
          THEN [data |-> data, written |-> frame] ELSE tx

\* monitor_ports: `while self.monitoring_active:` and the branch on is_connected.
\* Connected: the keep-alive send_command and sleep(1), back to the loop head.
KeepAlive(t) == mon[t].pc = "loop" /\ monitoring_active /\ is_connected

MonLoop(t) ==
    /\ mon[t].pc = "loop"
    /\ IF ~monitoring_active
       THEN SetMon(t, "none", 0) /\ UNCHANGED <<response_callback, tx>>  \* thread returns
       ELSE IF ~is_connected
       THEN SetMon(t, "lock", 0) /\ UNCHANGED <<response_callback, tx>>
       ELSE /\ SendCommand("handle_version_response")               \* keep-alive
            /\ Transmit(KmVersion, SendCommandFrame(KmVersion, <<>>))
            /\ UNCHANGED mon
    /\ UNCHANGED <<monitoring_active, monitoring_thread, monCrashed, readers,
                   is_connected, serial_open, serial_connection, sh_is_flashing,
                   sh_flashing_lock, portVars, mcu_status, reply, codecVars,
                   flasherVars, downloadVars, restVars>>

\* `with self.flashing_lock:` entry, blocking until the lock is free.
MonAcquire(t) ==
    /\ mon[t].pc = "lock"
    /\ LockFree
    /\ sh_flashing_lock' = <<"monitor", t>>
    /\ SetMon(t, "poll", 0)
    /\ UNCHANGED <<monitoring_active, monitoring_thread, monCrashed, readers,
                   is_connected, serial_open, serial_connection, sh_is_flashing,
                   portVars, cmdVars, codecVars, flasherVars, downloadVars, restVars>>

\* The for loop over KNOWN_DEVICES with find_com_port: a port found means
\* auto_connect is called, none found leaves the with block.
MonCallsAutoConnect(t) == mon[t].pc = "poll" /\ FirstMatch(ports) # 0

MonPoll(t) ==
    /\ mon[t].pc = "poll"
    /\ IF MonCallsAutoConnect(t)
       THEN LET device == KNOWN_DEVICES[FirstMatch(ports)]
            IN  /\ mon' = [mon EXCEPT ![t] =
                             [pc |-> "connect", attempt |-> 0,
                              com_port |-> FindComPort(ports, device.vid, device.pid),
                              mode |-> device.mode]]
                /\ seen' = ports
       ELSE /\ SetMon(t, "unlock", 0)
            /\ UNCHANGED seen
    /\ UNCHANGED <<monitoring_active, monitoring_thread, monCrashed, readers,
                   is_connected, serial_open, serial_connection, sh_is_flashing,
                   sh_flashing_lock, ports, com_port, current_mode, cmdVars, codecVars,
                   flasherVars, downloadVars, restVars>>

\* auto_connect: `while attempt < retry_attempts and not self.is_connected`
MonOpensPort(t) ==
    mon[t].pc = "connect" /\ mon[t].attempt < RetryAttempts /\ ~is_connected

\* One pass of the auto_connect loop: serial.Serial(...) succeeds (the port is
\* there to open) or raises; the loop ends when its condition fails.
MonConnect(t) ==
    /\ mon[t].pc = "connect"
    /\ IF MonOpensPort(t)
       THEN \/ /\ mon[t].com_port \in ports                 \* open succeeded
               /\ serial_connection' = "open"
               /\ is_connected' = TRUE
               /\ serial_open' = TRUE
               /\ current_mode' = mon[t].mode
               /\ com_port' = mon[t].com_port
               /\ readers' = readers + 1                     \* serial_thread.start()
               /\ mcu_status' = "connected"                  \* root.after(0, update_mcu_status)
               /\ reply' = "none"
               /\ UNCHANGED mon
            \/ /\ SetMon(t, "connect", mon[t].attempt + 1)   \* except: attempt += 1
               /\ UNCHANGED <<serial_connection, is_connected, serial_open, readers,
                              current_mode, com_port, mcu_status, reply>>
       ELSE /\ SetMon(t, "unlock", 0)
            /\ UNCHANGED <<serial_connection, is_connected, serial_open, readers,
                           current_mode, com_port, mcu_status, reply>>
    /\ UNCHANGED <<monitoring_active, monitoring_thread, monCrashed, sh_is_flashing,
                   sh_flashing_lock, ports, seen, response_callback, tx, codecVars,
                   flasherVars, downloadVars, restVars>>

\* Leaving `with self.flashing_lock:`: Lock.release() raises RuntimeError on an
\* unlocked lock, which ends the thread; otherwise sleep(1) and loop.
MonRelease(t) ==
    /\ mon[t].pc = "unlock"
    /\ IF LockFree
       THEN /\ SetMon(t, "none", 0)
            /\ monCrashed' = TRUE
            /\ UNCHANGED sh_flashing_lock
       ELSE /\ sh_flashing_lock' = <<"free", 0>>
            /\ SetMon(t, "loop", 0)
            /\ UNCHANGED monCrashed
    /\ UNCHANGED <<monitoring_active, monitoring_thread, readers, is_connected,
                   serial_open, serial_connection, sh_is_flashing, portVars, cmdVars,
                   codecVars, flasherVars, downloadVars, restVars>>

\* The loop condition of serial_communication_thread
ReadLoopRuns == monitoring_active /\ is_connected /\ serial_open

\* handle_disconnect: flags cleared, port closed and dropped, and
\* root.after(0, self.update_mcu_status)
HandleDisconnect ==
    /\ is_connected' = FALSE
    /\ serial_open' = FALSE
    /\ serial_connection' = "None"
    /\ mcu_status' = "disconnected"
    /\ reply' = "none"

\* in_waiting or read raises: the device behind the open port is gone
ReadRaises == serial_connection = "open" /\ com_port \notin ports

\* One pass of serial_communication_thread: the loop ends when its condition
\* fails; a read on a port whose device is gone raises, and the thread calls
\* handle_disconnect and breaks; otherwise it reads what is waiting, hands it
\* to handle_incoming_data (which logs the frames it finds) and sleeps 0.1 s.
ReadLoop ==
    /\ readers > 0
    /\ IF ~ReadLoopRuns
       THEN /\ readers' = readers - 1
            /\ UNCHANGED <<is_connected, serial_open, serial_connection, mcu_status, reply>>
       ELSE IF ReadRaises
       THEN /\ HandleDisconnect
            /\ readers' = readers - 1
       ELSE /\ reply' = (IF serial_connection = "open" /\ reply = "sent" THEN "read"
                                                                        ELSE reply)
            /\ UNCHANGED <<readers, is_connected, serial_open, serial_connection,
                           mcu_status>>
    /\ UNCHANGED <<monitoring_active, monitoring_thread, mon, monCrashed,
                   sh_is_flashing, sh_flashing_lock, portVars, response_callback, tx,
                   codecVars, flasherVars, downloadVars, restVars>>

\* The device answers the km.version() query it was sent.
DeviceReplies ==
    /\ is_connected /\ serial_connection = "open" /\ com_port \in ports
    /\ response_callback = "handle_version_response"
    /\ reply # "sent"
    /\ reply' = "sent"
    /\ UNCHANGED <<monitoring_active, monitoring_thread, mon, monCrashed, readers,
                   is_connected, serial_open, serial_connection, sh_is_flashing,
                   sh_flashing_lock, portVars, response_callback, tx, mcu_status,
                   codecVars, flasherVars, downloadVars, restVars>>

\* The operator plugs the device in or pulls it out.
PlugUnplug(d) ==
    /\ ports' = (IF d \in ports THEN ports \ {d} ELSE ports \cup {d})
    /\ UNCHANGED <<com_port, current_mode, seen, cmdVars>>
    /\ UNCHANGED <<monitoring_active, monitoring_thread, mon, monCrashed, readers,
                   is_connected, serial_open, serial_connection, sh_is_flashing,
                   sh_flashing_lock, codecVars, flasherVars, downloadVars, restVars>>

-----------------------------------------------------------------------------
(***************************************************************************)
(* Flash orchestrator: Flasher.flash_firmware, flash_firmware_thread and   *)
(* the SerialHandler operations it calls (set_flashing, stop_monitoring,   *)
(* close_connection, start_monitoring)                                     *)
(***************************************************************************)
SetJob(j, pc) == job' = [job EXCEPT ![j].pc = pc]

\* (a flash_firmware_thread that takes the lock without waiting for it)
FlasherLockFree_NoWait == TRUE

FlasherLockFree == fl_flashing_lock = 0

\* A flash job is inside `with self.flashing_lock:` of flash_firmware_thread.
FlashActive == fl_flashing_lock # 0

\* download_and_flash / flash_local_bin / flash_firmware: the request starts a
\* flash_firmware_thread at once, whatever Flasher.is_flashing says.
\* contended records that a job was active when the request was made.
RequestFlash(j) ==
    /\ job[j].pc = "idle"
    /\ IF j = 1 THEN TRUE ELSE job[j - 1].pc # "idle"      \* requests are numbered in order
    /\ job' = [job EXCEPT ![j].pc = "start", ![j].contended = FlashActive]
    /\ UNCHANGED <<fl_is_flashing, fl_flashing_lock, proc, linkVars, codecVars, downloadVars, restVars>>

\* flash_firmware_thread: `if not os.path.isfile(bin_path): ... return`
JobCheckFile(j) ==
    /\ job[j].pc = "start"
    /\ \E isfile \in BOOLEAN :
          IF isfile THEN SetJob(j, "wait_lock")
          ELSE job' = [job EXCEPT ![j].pc = "done", ![j].outcome = "no_file"]
    /\ UNCHANGED <<fl_is_flashing, fl_flashing_lock, proc, linkVars, codecVars, downloadVars, restVars>>

\* `with self.flashing_lock:` (blocking) and `self.is_flashing = True`
JobEnter(j) ==
    /\ job[j].pc = "wait_lock"
    /\ FlasherLockFree
    /\ fl_flashing_lock' = j
    /\ fl_is_flashing' = TRUE
    /\ job' = [job EXCEPT ![j].pc = "sf_check", ![j].entered = TRUE]
    /\ UNCHANGED <<proc, linkVars, codecVars, downloadVars, restVars>>

\* set_flashing(True): `if not self.flashing_lock.locked():` ...
JobSetFlashingCheck(j) ==
    /\ job[j].pc = "sf_check"
    /\ IF LockFree
       THEN /\ SetJob(j, "sf_acquire")
            /\ UNCHANGED sh_is_flashing
       ELSE /\ sh_is_flashing' = TRUE
            /\ SetJob(j, "chk_conn")
    /\ UNCHANGED <<monitoring_active, monitoring_thread, mon, monCrashed, readers,
                   is_connected, serial_open, serial_connection, sh_flashing_lock,
                   portVars, cmdVars, fl_is_flashing, fl_flashing_lock, proc, codecVars,
                   downloadVars, restVars>>

\* ... `self.flashing_lock.acquire()` (blocking), then `self.is_flashing = True`
JobSetFlashingAcquire(j) ==
    /\ job[j].pc = "sf_acquire"
    /\ LockFree
    /\ sh_flashing_lock' = <<"flasher", j>>
    /\ sh_is_flashing' = TRUE
    /\ SetJob(j, "chk_conn")
    /\ UNCHANGED <<monitoring_active, monitoring_thread, mon, monCrashed, readers,
                   is_connected, serial_open, serial_connection, portVars, cmdVars,
                   fl_is_flashing, fl_flashing_lock, proc, codecVars,
                   downloadVars, restVars>>

\* `if self.serial_handler.is_connected:` guards stop_monitoring and the join
JobCheckConnected(j) ==
    /\ job[j].pc = "chk_conn"
    /\ IF is_connected THEN SetJob(j, "stop_mon") ELSE SetJob(j, "popen")
    /\ UNCHANGED <<fl_is_flashing, fl_flashing_lock, proc, linkVars, codecVars, downloadVars, restVars>>

\* stop_monitoring up to its join: monitoring_active = False under self.lock
\* (or the early return when monitoring is not active), then close_connection
\* when the connection is open.
JobStopMonitoring(j) ==
    /\ job[j].pc = "stop_mon"
    /\ IF ~monitoring_active
       THEN UNCHANGED <<monitoring_active, is_connected, serial_open, serial_connection,
                        mcu_status, reply>>
       ELSE /\ monitoring_active' = FALSE
            /\ IF serial_connection = "open"
               THEN /\ serial_connection' = "None"          \* close_connection
                    /\ is_connected' = FALSE
                    /\ serial_open' = FALSE
                    /\ mcu_status' = "disconnected"
                    /\ reply' = "none"
               ELSE UNCHANGED <<is_connected, serial_open, serial_connection,
                                mcu_status, reply>>
    /\ SetJob(j, "join")
    /\ UNCHANGED <<monitoring_thread, mon, monCrashed, readers, sh_is_flashing,
                   sh_flashing_lock, portVars, response_callback, tx, fl_is_flashing,
                   fl_flashing_lock, proc, codecVars,
                   downloadVars, restVars>>

\* join(timeout=5) can expire only on a thread that is held up for seconds:
\* waiting for the flashing lock, or inside the retry loop of auto_connect
\* (5 attempts, 2 s apart). A thread at the head of its 1 s loop has returned.
JoinMayTimeOut(t) == mon[t].pc \in {"lock", "connect"}

\* monitoring_thread.join(timeout=5), in stop_monitoring and again in
\* flash_firmware_thread: returns when the thread has ended or on timeout.
JobJoin(j) ==
    /\ job[j].pc = "join"
    /\ \/ monitoring_thread = 0
       \/ ~MonAlive(monitoring_thread)
       \/ JoinMayTimeOut(monitoring_thread)
    /\ SetJob(j, "popen")
    /\ UNCHANGED <<fl_is_flashing, fl_flashing_lock, proc, linkVars, codecVars, downloadVars, restVars>>

\* time.sleep(0.5) before the programmer is started outlasts the 0.1 s poll of
\* serial_communication_thread: a read task whose loop condition is false has
\* returned by then.
ReadTaskSettled == readers = 0 \/ ReadLoopRuns

\* subprocess.Popen(esptool_args): the process starts, or Popen raises and the
\* except clause sets process_failed.
JobPopen(j) ==
    /\ job[j].pc = "popen"
    /\ ReadTaskSettled
    /\ \/ /\ proc' = [proc EXCEPT ![j] = "running"]
          /\ SetJob(j, "wait")
       \/ /\ job' = [job EXCEPT ![j].pc = "finally", ![j].outcome = "failed"]
          /\ UNCHANGED proc
    /\ UNCHANGED <<fl_is_flashing, fl_flashing_lock, linkVars, codecVars, downloadVars, restVars>>

\* process.wait() returns; the exit code and the two output markers decide
\* between the success line and process_failed.
JobProcessExit(j) ==
    /\ job[j].pc = "wait"
    /\ proc' = [proc EXCEPT ![j] = "exited"]
    /\ \E ok \in BOOLEAN :
          job' = [job EXCEPT ![j].pc = "finally",
                             ![j].outcome = IF ok THEN "success" ELSE "failed"]
    /\ UNCHANGED <<fl_is_flashing, fl_flashing_lock, linkVars, codecVars, downloadVars, restVars>>

\* finally: `self.is_flashing = False`, then set_flashing(False):
\* `if self.flashing_lock.locked():` ...
JobFinally(j) ==
    /\ job[j].pc = "finally"
    /\ fl_is_flashing' = FALSE
    /\ IF LockFree
       THEN /\ sh_is_flashing' = FALSE
            /\ SetJob(j, "restart")
       ELSE /\ SetJob(j, "sf_release")
            /\ UNCHANGED sh_is_flashing
    /\ UNCHANGED <<monitoring_active, monitoring_thread, mon, monCrashed, readers,
                   is_connected, serial_open, serial_connection, sh_flashing_lock,
                   portVars, cmdVars, fl_flashing_lock, proc, codecVars,
                   downloadVars, restVars>>

\* ... `self.flashing_lock.release()`, whoever acquired the lock, then
\* `self.is_flashing = False`. release() of a lock that was unlocked in between
\* raises RuntimeError out of the finally clause: the thread ends, leaving the
\* `with` of Flasher.flashing_lock, without start_monitoring.
JobSetFlashingRelease(j) ==
    /\ job[j].pc = "sf_release"
    /\ IF LockFree
       THEN /\ fl_flashing_lock' = 0
            /\ job' = [job EXCEPT ![j].pc = "done", ![j].outcome = "crashed"]
            /\ UNCHANGED <<sh_flashing_lock, sh_is_flashing>>
       ELSE /\ sh_flashing_lock' = <<"free", 0>>
            /\ sh_is_flashing' = FALSE
            /\ SetJob(j, "restart")
            /\ UNCHANGED fl_flashing_lock
    /\ UNCHANGED <<monitoring_active, monitoring_thread, mon, monCrashed, readers,
                   is_connected, serial_open, serial_connection, portVars, cmdVars,
                   fl_is_flashing, proc, codecVars, downloadVars, restVars>>

\* The id threading.Thread(...) gets: the lowest one not in use.
NewMonId == CHOOSE t \in MonIds : ~MonAlive(t) /\ \A u \in MonIds : u < t => MonAlive(u)

\* start_monitoring: returns when monitoring is already active, else sets
\* monitoring_active and starts a new monitor_ports thread.
StartMonitoring ==
    IF monitoring_active
    THEN UNCHANGED <<monitoring_active, monitoring_thread, mon>>
    ELSE /\ monitoring_active' = TRUE
         /\ monitoring_thread' = NewMonId
         /\ SetMon(NewMonId, "loop", 0)

\* finally: start_monitoring(), then the `with self.flashing_lock:` block ends.
JobStartMonitoring(j) ==
    /\ job[j].pc = "restart"
    /\ monitoring_active \/ \E t \in MonIds : ~MonAlive(t)
    /\ StartMonitoring
    /\ fl_flashing_lock' = 0
    /\ SetJob(j, "done")
    /\ UNCHANGED <<monCrashed, readers, is_connected, serial_open, serial_connection,
                   sh_is_flashing, sh_flashing_lock, portVars, cmdVars, fl_is_flashing,
                   proc, codecVars, downloadVars, restVars>>

-----------------------------------------------------------------------------
(***************************************************************************)
(* Download orchestrator: ConfigManager                                    *)
(*                                                                         *)
(* A Python dict is a sequence of <<key, value>> pairs with distinct keys, *)
(* in insertion order. config_data is a record of the manifest's fields    *)
(* with `keys` the keys present; an absent key holds its default.          *)
(***************************************************************************)
DKeys(d)      == {d[i][1] : i \in DOMAIN d}
DHas(d, k)    == k \in DKeys(d)
DGet(d, k)    == d[CHOOSE i \in DOMAIN d : d[i][1] = k][2]
DPut(d, k, v) == IF DHas(d, k)
                 THEN [i \in DOMAIN d |-> IF d[i][1] = k THEN <<k, v>> ELSE d[i]]
                 ELSE Append(d, <<k, v>>)

Servers == {"GitHub", "Gitee"}
Lower(server) == IF server = "GitHub" THEN "github" ELSE "gitee"     \* server.lower()
OtherServer(server) == IF server = "GitHub" THEN "Gitee" ELSE "GitHub"

\* stop_after_attempt(3) of the tenacity @retry on fetch and fetch_config
StopAfterAttempt == 3

\* `urls` / `config_urls`: the preferred server first, the other second
MirrorOrder == <<preferred_server, OtherServer(preferred_server)>>

\* f"{name}.bin" if not name.endswith('.bin') else name
FileName(name) ==
    CASE name = "A"     -> "A.bin"
      [] name = "A.bin" -> "A.bin"
      [] name = "B"     -> "B.bin"
      [] name = "B.bin" -> "B.bin"

AllFiles == {"A.bin", "B.bin"}

Info(name, primary_url, fallback_url) ==
    [name |-> name, primary_url |-> primary_url, fallback_url |-> fallback_url]

\* config_data = {}
EmptyConfig ==
    [keys |-> {}, firmware |-> <<>>, is_online |-> FALSE,
     last_successful_server |-> "", window_position |-> ""]

\* A manifest document as a mirror serves it: the firmware section only.
Doc(firmware) == [EmptyConfig EXCEPT !.keys = {"firmware"}, !.firmware = firmware]

\* The documents a mirror may serve: both sides; the right side gone; the
\* right side without a fallback URL; the right side renamed to the file the
\* left side already names (a name ending in .bin), with other URLs.
RemoteDocs ==
    { Doc(<< <<"left", Info("A", "pA", "fA")>>, <<"right", Info("B", "pB", "fB")>> >>),
      Doc(<< <<"left", Info("A", "pA", "fA")>> >>),
      Doc(<< <<"left", Info("A", "pA", "fA")>>, <<"right", Info("B", "pB", "")>> >>),
      Doc(<< <<"left", Info("A", "pA", "fA")>>, <<"right", Info("A.bin", "pA2", "fA2")>> >>) }

\* What save_config_to_file of an earlier session left at LOCAL_CONFIG_PATH:
\* nothing, or a document with the fields the orchestrator adds.
LocalConfigs ==
    {[exists |-> FALSE, data |-> EmptyConfig]}
    \cup
    {[exists |-> TRUE,
      data |-> [d EXCEPT !.keys = d.keys \cup {"is_online", "last_successful_server"} \cup wp,
                         !.is_online = on,
                         !.last_successful_server = "gitee",
                         !.window_position = IF wp = {} THEN "" ELSE "100,100"]] :
        d \in RemoteDocs, on \in BOOLEAN, wp \in {{}, {"window_position"}}}

\* config_data.get("firmware", {})
FirmwareOf(cfg) == IF "firmware" \in cfg.keys THEN cfg.firmware ELSE <<>>

\* _is_valid_file: os.path.exists(filepath) and os.path.getsize(filepath) > 0
IsValidFile(filename) == disk[filename] \in {"partial", "complete"}

\* (a derivation that builds on the previous dictionaries)
ParseReset_Keep(old) == old

\* `self.bin_file_urls = {}` etc. at the head of _parse_firmware_info
ParseReset(old) == <<>>

\* The for loop of _parse_firmware_info over firmware.items(), from item i on;
\* acc holds the three dictionaries being built.
RECURSIVE ParseLoop(_, _, _)
ParseLoop(firmware, i, acc) ==
    IF i > Len(firmware) THEN acc
    ELSE LET side == firmware[i][1]
             info == firmware[i][2]
         IN  IF info.name = "" \/ info.primary_url = "" \/ info.fallback_url = ""
             THEN ParseLoop(firmware, i + 1, acc)                      \* continue
             ELSE LET filename == FileName(info.name) IN
                  ParseLoop(firmware, i + 1,
                      [urls  |-> DPut(acc.urls, filename,
                                      [primary |-> info.primary_url,
                                       fallback |-> info.fallback_url]),
                       sides |-> DPut(acc.sides, side, filename),
                       downloaded |-> DPut(acc.downloaded, filename,
                                           IsValidFile(filename))])

\* _parse_firmware_info on manifest cfg, given the dictionaries held so far
ParseFirmwareInfo(cfg, old) ==
    ParseLoop(FirmwareOf(cfg), 1,
              [urls |-> ParseReset(old.urls), sides |-> ParseReset(old.sides),
               downloaded |-> ParseReset(old.downloaded)])

Derived == [urls |-> bin_file_urls, sides |-> side_to_filename,
            downloaded |-> bin_files_downloaded]

SetDerived(d) ==
    /\ bin_file_urls' = d.urls
    /\ side_to_filename' = d.sides
    /\ bin_files_downloaded' = d.downloaded

\* save_config_to_file: json.dump(self.config_data) to LOCAL_CONFIG_PATH
SaveConfigToFile(cfg) == local_config' = [exists |-> TRUE, data |-> cfg]

IdleTask == [st |-> "none", mirror |-> 1, attempt |-> 1, result |-> "None"]

\* tasks.append(download_file_async(...)) for every filename of bin_file_urls
CreateTasks(urls) ==
    asset' = [f \in AllFiles |->
                 IF DHas(urls, f) THEN [IdleTask EXCEPT !.st = "pending"] ELSE IdleTask]

\* (a retry policy that moves to the other mirror after the first failure)
MayRetry_Never(attempt) == FALSE

\* tenacity: another attempt is made while fewer than StopAfterAttempt were
MayRetry(attempt) == attempt < StopAfterAttempt

\* (a replacement of config_data that forgets the stored window position)
ManifestFetched_WindowPositionLost(server) ==
    /\ config_data' = [remote EXCEPT
                          !.keys = remote.keys \cup {"is_online", "last_successful_server"},
                          !.is_online = TRUE,
                          !.last_successful_server = Lower(server)]
    /\ download_successful' = TRUE
    /\ cm_is_online' = TRUE
    /\ UNCHANGED manifestFailed

\* The body of `for config_url, server in config_urls` on a fetched document,
\* up to the end of its `with self.config_lock:` block: config_data replaced,
\* window_position kept.
ManifestFetched(server) ==
    LET wp  == IF "window_position" \in config_data.keys
               THEN config_data.window_position ELSE ""
        new == [remote EXCEPT
                   !.keys = remote.keys \cup {"is_online", "last_successful_server"}
                                \cup (IF wp # "" THEN {"window_position"} ELSE {}),
                   !.is_online = TRUE,
                   !.last_successful_server = Lower(server),
                   !.window_position = wp]
    IN  /\ config_data' = new
        /\ download_successful' = TRUE
        /\ cm_is_online' = TRUE
        /\ UNCHANGED manifestFailed

\* The else clause of that for loop ("Both servers failed"), up to the end of
\* its `with self.config_lock:` block
ManifestBothFailed ==
    LET new == [config_data EXCEPT !.keys = config_data.keys \cup {"is_online"},
                                   !.is_online = FALSE]
    IN  /\ config_data' = new
        /\ cm_is_online' = FALSE
        /\ manifestFailed' = TRUE
        /\ UNCHANGED download_successful

\* One attempt of fetch_config on the current mirror, made with config_lock
\* held. Success ends the loop; a failure is retried by tenacity, and after
\* the last attempt the except clause passes to the next mirror, or to the
\* else clause after the second one.
FetchConfigAttempt ==
    /\ dl.pc = "config"
    /\ LET server == MirrorOrder[dl.mirror] IN
       \E ok \in BOOLEAN :
          /\ cfgLog' = Append(cfgLog, <<server, ok>>)
          /\ IF ok
             THEN /\ ManifestFetched(server)
                  /\ config_lock' = "free"
                  /\ dl' = [dl EXCEPT !.pc = "parse", !.step = 1]
             ELSE IF MayRetry(dl.attempt)
             THEN /\ dl' = [dl EXCEPT !.attempt = dl.attempt + 1]
                  /\ config_lock' = "pipeline"
                  /\ UNCHANGED <<config_data, download_successful, cm_is_online,
                                 manifestFailed>>
             ELSE IF dl.mirror < Len(MirrorOrder)
             THEN /\ dl' = [dl EXCEPT !.mirror = dl.mirror + 1, !.attempt = 1]
                  /\ config_lock' = "free"
                  /\ UNCHANGED <<config_data, download_successful, cm_is_online,
                                 manifestFailed>>
             ELSE /\ ManifestBothFailed
                  /\ config_lock' = "free"
                  /\ dl' = [dl EXCEPT !.pc = "parse", !.step = 1]
    /\ UNCHANGED <<preferred_server, remote, disk, download_complete, cached,
                   bin_file_urls, side_to_filename, bin_files_downloaded,
                   local_config, asset, assetLog, codecVars, linkVars, flasherVars,
                   restVars>>

\* One statement of the _parse_firmware_info call that follows the manifest
\* block, made without config_lock: steps 1..3 are the three assignments of
\* an empty dictionary, then three steps per firmware item (the entry of
\* bin_file_urls, of side_to_filename, of bin_files_downloaded), an item
\* without a name or a URL being skipped whole.
ParseStep ==
    /\ dl.pc = "parse"
    /\ LET firmware == FirmwareOf(config_data)
           i        == ((dl.step - 4) \div 3) + 1
           part     == (dl.step - 4) % 3
       IN  /\ dl.step <= 3 + 3 * Len(firmware)
           /\ IF dl.step = 1
              THEN /\ bin_file_urls' = ParseReset(bin_file_urls)
                   /\ UNCHANGED <<side_to_filename, bin_files_downloaded>>
                   /\ dl' = [dl EXCEPT !.step = @ + 1]
              ELSE IF dl.step = 2
              THEN /\ side_to_filename' = ParseReset(side_to_filename)
                   /\ UNCHANGED <<bin_file_urls, bin_files_downloaded>>
                   /\ dl' = [dl EXCEPT !.step = @ + 1]
              ELSE IF dl.step = 3
              THEN /\ bin_files_downloaded' = ParseReset(bin_files_downloaded)
                   /\ UNCHANGED <<bin_file_urls, side_to_filename>>
                   /\ dl' = [dl EXCEPT !.step = @ + 1]
              ELSE LET side     == firmware[i][1]
                       info     == firmware[i][2]
                       filename == FileName(info.name)
                   IN  IF info.name = "" \/ info.primary_url = "" \/ info.fallback_url = ""
                       THEN /\ dl' = [dl EXCEPT !.step = @ + 3]            \* continue
                            /\ UNCHANGED <<bin_file_urls, side_to_filename,
                                           bin_files_downloaded>>
                       ELSE /\ dl' = [dl EXCEPT !.step = @ + 1]
                            /\ bin_file_urls' =
                                  (IF part = 0
                                   THEN DPut(bin_file_urls, filename,
                                             [primary |-> info.primary_url,
                                              fallback |-> info.fallback_url])
                                   ELSE bin_file_urls)
                            /\ side_to_filename' =
                                  (IF part = 1 THEN DPut(side_to_filename, side, filename)
                                               ELSE side_to_filename)
                            /\ bin_files_downloaded' =
                                  (IF part = 2
                                   THEN DPut(bin_files_downloaded, filename,
                                             IsValidFile(filename))
                                   ELSE bin_files_downloaded)
    /\ UNCHANGED <<preferred_server, remote, local_config, disk, config_data,
                   config_lock, cm_is_online, download_successful, download_complete,
                   asset, cached, manifestFailed, cfgLog, assetLog, codecVars,
                   linkVars, flasherVars, restVars>>

\* After _parse_firmware_info: save_config_to_file and the download tasks
AfterParse ==
    /\ dl.pc = "parse"
    /\ dl.step > 3 + 3 * Len(FirmwareOf(config_data))
    /\ SaveConfigToFile(config_data)
    /\ CreateTasks(bin_file_urls)
    /\ dl' = [dl EXCEPT !.pc = "assets", !.step = 0]
    /\ UNCHANGED <<preferred_server, remote, disk, config_data, config_lock,
                   cm_is_online, download_successful, download_complete,
                   bin_file_urls, side_to_filename, bin_files_downloaded, cached,
                   manifestFailed, cfgLog, assetLog, codecVars, linkVars, flasherVars,
                   restVars>>

\* download_file_async up to its first fetch: a valid local file is "skipped"
\* and the task returns config_data.get("last_successful_server", "github").
AssetStart(f) ==
    /\ dl.pc = "assets"
    /\ asset[f].st = "pending"
    /\ IF IsValidFile(f)
       THEN asset' = [asset EXCEPT ![f].st = "done",
                         ![f].result =
                             IF "last_successful_server" \in config_data.keys
                             THEN config_data.last_successful_server ELSE "github"]
       ELSE asset' = [asset EXCEPT ![f].st = "fetching"]
    /\ UNCHANGED <<preferred_server, remote, local_config, disk, config_data,
                   config_lock, cm_is_online, download_successful, download_complete,
                   bin_file_urls, side_to_filename, bin_files_downloaded, dl, cached,
                   manifestFailed, cfgLog, assetLog, codecVars, linkVars, flasherVars, restVars>>

\* What a failed fetch leaves of the file: nothing written (the request
\* failed), or the file opened 'wb' and no or only some chunks written.
AfterFailedFetch(before) == {before, "empty", "partial"}

\* One attempt of fetch(url) in download_file_async. Success returns
\* server.lower(); after the last attempt on a mirror the except clause moves
\* to the next mirror, and after the second mirror the task returns None.
AssetFetchAttempt(f) ==
    /\ dl.pc = "assets"
    /\ asset[f].st = "fetching"
    /\ LET server == MirrorOrder[asset[f].mirror] IN
       \E ok \in BOOLEAN :
          /\ assetLog' = [assetLog EXCEPT ![f] = Append(@, <<server, ok>>)]
          /\ IF ok
             THEN /\ disk' = [disk EXCEPT ![f] = "complete"]
                  /\ asset' = [asset EXCEPT ![f].st = "done", ![f].result = Lower(server)]
             ELSE /\ \E left \in AfterFailedFetch(disk[f]) :
                        disk' = [disk EXCEPT ![f] = left]
                  /\ IF MayRetry(asset[f].attempt)
                     THEN asset' = [asset EXCEPT ![f].attempt = @ + 1]
                     ELSE IF asset[f].mirror < Len(MirrorOrder)
                     THEN asset' = [asset EXCEPT ![f].mirror = @ + 1, ![f].attempt = 1]
                     ELSE asset' = [asset EXCEPT ![f].st = "done", ![f].result = "None"]
    /\ UNCHANGED <<preferred_server, remote, local_config, config_data, config_lock,
                   cm_is_online, download_successful, download_complete,
                   bin_file_urls, side_to_filename, bin_files_downloaded, dl, cached,
                   manifestFailed, cfgLog, codecVars, linkVars, flasherVars, restVars>>

\* The loop after asyncio.gather over zip(bin_file_urls.keys(), results), from
\* item i on: acc = [downloaded, lss] (bin_files_downloaded and
\* config_data["last_successful_server"]).
RECURSIVE AggregateLoop(_, _, _)
AggregateLoop(urls, i, acc) ==
    IF i > Len(urls) THEN acc
    ELSE LET filename == urls[i][1]
             result   == asset[filename].result
         IN  IF result # "None"                       \* isinstance(result, str)
             THEN AggregateLoop(urls, i + 1,
                      [downloaded |-> DPut(acc.downloaded, filename, TRUE),
                       lss |-> <<result>>])
             ELSE AggregateLoop(urls, i + 1,
                      [downloaded |-> DPut(acc.downloaded, filename, FALSE),
                       lss |-> acc.lss])

\* any(self.bin_files_downloaded.values())
AnyDownloaded(d) == \E i \in DOMAIN d : d[i][2]

\* The block after `results = await asyncio.gather(...)`, under config_lock:
\* flags per asset, is_online recomputed, save_config_to_file.
Aggregate ==
    /\ dl.pc = "assets"
    /\ \A f \in AllFiles : asset[f].st \in {"none", "done"}
    /\ LET acc    == AggregateLoop(bin_file_urls, 1,
                                   [downloaded |-> bin_files_downloaded, lss |-> <<>>])
           online == AnyDownloaded(acc.downloaded) \/ download_successful
           new    == [config_data EXCEPT
                         !.keys = config_data.keys \cup {"is_online"}
                                     \cup (IF acc.lss # <<>>
                                           THEN {"last_successful_server"} ELSE {}),
                         !.last_successful_server =
                             IF acc.lss # <<>> THEN acc.lss[1] ELSE @,
                         !.is_online = online]
       IN  /\ bin_files_downloaded' = acc.downloaded
           /\ cm_is_online' = online
           /\ config_data' = new
           /\ SaveConfigToFile(new)
    /\ dl' = [dl EXCEPT !.pc = "finished"]
    /\ UNCHANGED <<preferred_server, remote, disk, config_lock, download_successful,
                   download_complete, bin_file_urls, side_to_filename, asset, cached,
                   manifestFailed, cfgLog, assetLog, codecVars, linkVars, flasherVars, restVars>>

\* (a signal set as soon as the asset tasks have returned)
SetDownloadComplete_BeforeAggregate ==
    /\ dl.pc = "assets"
    /\ \A f \in AllFiles : asset[f].st \in {"none", "done"}
    /\ download_complete' = TRUE
    /\ dl' = [dl EXCEPT !.pc = "done"]
    /\ UNCHANGED <<preferred_server, remote, local_config, disk, config_data,
                   config_lock, cm_is_online, download_successful, bin_file_urls,
                   side_to_filename, bin_files_downloaded, asset, cached,
                   manifestFailed, cfgLog, assetLog, codecVars, linkVars, flasherVars, restVars>>

\* download_all_files: asyncio.run(...) has returned; self.download_complete.set()
SetDownloadComplete ==
    /\ dl.pc = "finished"
    /\ download_complete' = TRUE
    /\ dl' = [dl EXCEPT !.pc = "done"]
    /\ UNCHANGED <<preferred_server, remote, local_config, disk, config_data,
                   config_lock, cm_is_online, download_successful, bin_file_urls,
                   side_to_filename, bin_files_downloaded, asset, cached,
                   manifestFailed, cfgLog, assetLog, codecVars, linkVars, flasherVars, restVars>>

\* is_online_status()
IsOnlineStatus == cm_is_online

-----------------------------------------------------------------------------
(***************************************************************************)
(* Flash request for a side: Flasher.download_and_flash and the            *)
(* ConfigManager accessors it calls                                        *)
(***************************************************************************)
Sides == {"left", "right"}

DafIdle == [pc |-> "idle", side |-> "", local |-> "", stable |-> FALSE,
            filename |-> "", urls |-> <<>>, order |-> <<>>, net |-> 0,
            result |-> "none", path |-> ""]

\* The entry a manifest yields for a side: <<filename, urls>>, or <<>> when the
\* side is not listed with a name and both URLs.
EntryOf(cfg, side) ==
    LET d == ParseFirmwareInfo(cfg, [urls |-> <<>>, sides |-> <<>>, downloaded |-> <<>>])
    IN  IF DHas(d.sides, side)
        THEN <<DGet(d.sides, side), DGet(d.urls, DGet(d.sides, side))>>
        ELSE <<>>

\* download_and_flash(firmware_key): the task thread is started. Recorded with
\* it: whether the cached and the served manifest give the side the same
\* entry (stable), and the side's file if it is on disk and non-empty (local).
DafRequest(side) ==
    /\ daf.pc = "idle"
    /\ LET now == EntryOf(config_data, side) IN
       daf' = [daf EXCEPT
                 !.pc = "read_side", !.side = side,
                 !.stable = /\ EntryOf(cached, side) # <<>>
                            /\ EntryOf(cached, side) = EntryOf(remote, side),
                 !.local = IF now # <<>> /\ IsValidFile(now[1]) THEN now[1] ELSE ""]
    /\ UNCHANGED <<codecVars, linkVars, flasherVars, downloadVars, versionVars,
                   tailVars>>

\* get_firmware_info: `filename = self.side_to_filename.get(side)`; None ends
\* the task with "No firmware information".
DafReadSide ==
    /\ daf.pc = "read_side"
    /\ IF DHas(side_to_filename, daf.side)
       THEN daf' = [daf EXCEPT !.pc = "read_urls",
                               !.filename = DGet(side_to_filename, daf.side)]
       ELSE daf' = [daf EXCEPT !.pc = "done", !.result = "no_info"]
    /\ UNCHANGED <<codecVars, linkVars, flasherVars, downloadVars, versionVars,
                   tailVars>>

\* get_firmware_info: `urls = self.bin_file_urls.get(filename, {})`
DafReadUrls ==
    /\ daf.pc = "read_urls"
    /\ daf' = [daf EXCEPT !.pc = "is_bin",
                          !.urls = IF DHas(bin_file_urls, daf.filename)
                                   THEN <<DGet(bin_file_urls, daf.filename)>> ELSE <<>>]
    /\ UNCHANGED <<codecVars, linkVars, flasherVars, downloadVars, versionVars,
                   tailVars>>

\* is_bin_downloaded(name): the file is valid and bin_files_downloaded has it
IsBinDownloaded(filename) ==
    /\ IsValidFile(filename)
    /\ DHas(bin_files_downloaded, filename)
    /\ DGet(bin_files_downloaded, filename)

\* `if self.config_manager.is_bin_downloaded(info["name"])`: flash_firmware is
\* called with the local path and the task returns.
DafIsBinDownloaded ==
    /\ daf.pc = "is_bin"
    /\ IF IsBinDownloaded(daf.filename)
       THEN daf' = [daf EXCEPT !.pc = "done", !.result = "flash", !.path = daf.filename]
       ELSE daf' = [daf EXCEPT !.pc = "online"]
    /\ UNCHANGED <<codecVars, linkVars, flasherVars, downloadVars, versionVars,
                   tailVars>>

\* `if not self.config_manager.is_online_status()`, read under config_lock;
\* online: get_firmware_urls (get_firmware_info once more) and the mirror
\* order from get_config_value("last_successful_server").
DafOnlineCheck ==
    /\ daf.pc = "online"
    /\ config_lock = "free"
    /\ IF ~IsOnlineStatus
       THEN daf' = [daf EXCEPT !.pc = "done", !.result = "offline"]
       ELSE LET filename == IF DHas(side_to_filename, daf.side)
                            THEN DGet(side_to_filename, daf.side) ELSE ""
                urls     == IF filename # "" /\ DHas(bin_file_urls, filename)
                            THEN <<DGet(bin_file_urls, filename).primary,
                                   DGet(bin_file_urls, filename).fallback>>
                            ELSE <<"None", "None">>
                gitee    == /\ "last_successful_server" \in config_data.keys
                            /\ config_data.last_successful_server = "gitee"
            IN  daf' = [daf EXCEPT !.pc = "primary",
                           !.order = IF gitee
                                     THEN << <<urls[2], "gitee">>, <<urls[1], "github">> >>
                                     ELSE << <<urls[1], "github">>, <<urls[2], "gitee">> >>]
    /\ UNCHANGED <<codecVars, linkVars, flasherVars, downloadVars, versionVars,
                   tailVars>>

\* requests.get on the first URL (n = 1) or, after that failed, on the second
\* (n = 2); a URL of None raises before any request is sent. Success writes
\* the file, records the server and is_online through set_config_value and
\* calls flash_firmware; the second failure records is_online = False.
DafFetch(n) ==
    /\ daf.pc = (IF n = 1 THEN "primary" ELSE "fallback")
    /\ config_lock = "free"
    /\ LET url == daf.order[n][1]
           set(cfg, online, server) ==
               [cfg EXCEPT !.keys = cfg.keys \cup {"is_online"}
                                      \cup (IF server # "" THEN {"last_successful_server"}
                                                           ELSE {}),
                           !.is_online = online,
                           !.last_successful_server = IF server # "" THEN server ELSE @]
       IN  \E ok \in (IF url = "None" THEN {FALSE} ELSE BOOLEAN) :
             /\ IF ok
                THEN /\ daf' = [daf EXCEPT !.pc = "done", !.result = "flash",
                                           !.path = daf.filename, !.net = @ + 1]
                     /\ disk' = [disk EXCEPT ![daf.filename] = "complete"]
                     /\ config_data' = set(config_data, TRUE, daf.order[n][2])
                     /\ SaveConfigToFile(config_data')
                ELSE /\ daf' = [daf EXCEPT
                                   !.pc = IF n = 1 THEN "fallback" ELSE "done",
                                   !.result = IF n = 1 THEN @ ELSE "failed",
                                   !.net = IF url = "None" THEN @ ELSE @ + 1]
                     /\ \E left \in (IF url = "None" THEN {disk[daf.filename]}
                                                     ELSE AfterFailedFetch(disk[daf.filename])) :
                           disk' = [disk EXCEPT ![daf.filename] = left]
                     /\ IF n = 1
                        THEN UNCHANGED <<config_data, local_config>>
                        ELSE /\ config_data' = set(config_data, FALSE, "")
                             /\ SaveConfigToFile(config_data')
    /\ UNCHANGED <<preferred_server, remote, config_lock, cm_is_online,
                   download_successful, download_complete, bin_file_urls,
                   side_to_filename, bin_files_downloaded, dl, asset, cached,
                   manifestFailed, cfgLog, assetLog, codecVars, linkVars, flasherVars,
                   versionVars, tailVars>>

-----------------------------------------------------------------------------
(***************************************************************************)
(* Version comparison: Updater.is_different_version                        *)
(***************************************************************************)
\* Characters str.strip() removes from both ends
Whitespace == {" ", "\t"}

\* str.strip(): the string without its leading and trailing whitespace
RECURSIVE LStrip(_)
LStrip(s) == IF s # <<>> /\ Head(s) \in Whitespace THEN LStrip(Tail(s)) ELSE s

RECURSIVE RStrip(_)
RStrip(s) == IF s # <<>> /\ s[Len(s)] \in Whitespace
             THEN RStrip(SubSeq(s, 1, Len(s) - 1)) ELSE s

Strip(s) == RStrip(LStrip(s))

\* (a comparison of the strings as given)
IsDifferentVersion_NoStrip(l, c) == l # c

\* is_different_version: latest_clean != current_clean; str() of a string is
\* the string and does not raise.
IsDifferentVersion(l, c) == Strip(l) # Strip(c)

MaxPad == 1                     \* whitespace characters at either end of an input

\* Version texts, as sequences of characters
VersionTexts ==
    { <<"2", ".", "7">>, <<"2", ".", "8">>, <<"2", ".", "7", "0">>,
      <<"2", " ", "7">>, <<>> }

VersionStrings ==
    { l \o v \o r : l \in SeqsUpTo(Whitespace, MaxPad), v \in VersionTexts,
                    r \in SeqsUpTo(Whitespace, MaxPad) }

\* A call is_different_version(latest, current)
CallIsDifferentVersion ==
    /\ differs = "none"
    /\ differs' = (IF IsDifferentVersion(latest, current) THEN "True" ELSE "False")
    /\ UNCHANGED <<latest, current, daf, tailVars, codecVars, linkVars, flasherVars,
                   downloadVars>>

-----------------------------------------------------------------------------
(***************************************************************************)
(* Update check: Updater.check_for_updates and download_file               *)
(***************************************************************************)
DEFAULT_VERSION == <<"2", ".", "6">>

\* Values of the manifest's "version": missing, the installed version, the
\* installed version with a space before it, a newer one
UpdateVersions ==
    { <<>>, DEFAULT_VERSION, <<" ">> \o DEFAULT_VERSION, <<"2", ".", "7">> }

\* The new executable's file: "absent", "empty" (0 bytes) or "nonempty"
ExeStates == {"absent", "empty", "nonempty"}

UpdIdle == [pc |-> "idle", online |-> FALSE, latest |-> <<"?">>, file |-> "absent",
            order |-> <<>>, requests |-> 0, downloaded |-> FALSE, launched |-> FALSE,
            result |-> "none", is_offline |-> FALSE, waited |-> FALSE]

\* set_config_value(key, value) on the manifest record
ConfigWith(cfg, key, value) ==
    IF key = "is_online"
    THEN [cfg EXCEPT !.keys = @ \cup {"is_online"}, !.is_online = value]
    ELSE IF key = "window_position"
    THEN [cfg EXCEPT !.keys = @ \cup {"window_position"}, !.window_position = value]
    ELSE [cfg EXCEPT !.keys = @ \cup {"last_successful_server"},
                     !.last_successful_server = value]

\* (a check that takes any file that exists)
FileAccepted_AnySize(file) == file # "absent"

\* download_file: the destination exists and os.path.getsize is not 0
FileAccepted(file) == file = "nonempty"

\* How a download_file call goes: the request fails before the file is
\* opened; the stream breaks after it was opened, with nothing or something
\* written; the body is written to its end, 0 bytes of it or more.
DownloadOutcomes == {"refused", "broken_empty", "broken_partial", "zero", "stored"}

\* download_file returns from its try block, no exception raised
DownloadFinished(outcome) == outcome \in {"zero", "stored"}

\* What the call leaves at the destination
DownloadLeaves(file, outcome) ==
    IF outcome = "refused" THEN file
    ELSE IF outcome \in {"broken_empty", "zero"} THEN "empty"
    ELSE "nonempty"

\* The process is running: os._exit(0) has not been called
Running == upd.pc # "exited"

\* check_for_updates(): the task thread is started; the versioned executable
\* of an earlier download may be in the main folder.
UpdStart ==
    /\ upd.pc = "idle"
    /\ \E file \in {"absent", "nonempty"} :
          upd' = [upd EXCEPT !.pc = "wait", !.file = file]
    /\ UNCHANGED <<codecVars, linkVars, flasherVars, downloadVars, versionVars, daf,
                   apiVars, extraVars>>

\* wait_until_downloaded(): download_complete.wait(30) returns True when the
\* event is set and False when the 30 s have passed; the task does not look
\* at what it returns.
UpdWait ==
    /\ upd.pc = "wait"
    /\ upd' = [upd EXCEPT !.pc = "online", !.waited = download_complete]
    /\ UNCHANGED <<codecVars, linkVars, flasherVars, downloadVars, versionVars, daf,
                   apiVars, extraVars>>

\* `if not self.config_manager.is_online_status()`: offline ends the task
UpdOnlineCheck ==
    /\ upd.pc = "online"
    /\ config_lock = "free"
    /\ upd' = IF IsOnlineStatus
              THEN [upd EXCEPT !.pc = "version", !.online = TRUE]
              ELSE [upd EXCEPT !.pc = "done", !.online = FALSE, !.result = "offline",
                               !.is_offline = TRUE]
    /\ UNCHANGED <<codecVars, linkVars, flasherVars, downloadVars, versionVars, daf,
                   apiVars, extraVars>>

\* get_config_value("version"); `if not latest_version` ends the task; the
\* firmware versions are compared and logged; then
\* `if self.is_different_version(latest_version, current_version)`, whose
\* else branch logs "Software is up to date."
UpdCompare ==
    /\ upd.pc = "version"
    /\ config_lock = "free"
    /\ \E v \in UpdateVersions :
          upd' = IF v = <<>>
                 THEN [upd EXCEPT !.pc = "done", !.latest = v, !.result = "no_version"]
                 ELSE IF IsDifferentVersion(v, DEFAULT_VERSION)
                 THEN [upd EXCEPT !.pc = "remove", !.latest = v]
                 ELSE [upd EXCEPT !.pc = "done", !.latest = v, !.result = "up_to_date"]
    /\ UNCHANGED <<codecVars, linkVars, flasherVars, downloadVars, versionVars, daf,
                   apiVars, extraVars>>

\* `if os.path.exists(new_exe_path): os.remove(new_exe_path)`, which may
\* raise (the outer except clause), then the mirror order from
\* get_config_value("last_successful_server").
UpdRemove ==
    /\ upd.pc = "remove"
    /\ config_lock = "free"
    /\ LET gitee == /\ "last_successful_server" \in config_data.keys
                    /\ config_data.last_successful_server = "gitee"
           order == IF gitee THEN <<"gitee", "github">> ELSE <<"github", "gitee">>
       IN  \/ upd' = [upd EXCEPT !.pc = "primary", !.file = "absent", !.order = order]
           \/ /\ upd.file # "absent"
              /\ upd' = [upd EXCEPT !.pc = "except"]
    /\ UNCHANGED <<codecVars, linkVars, flasherVars, downloadVars, versionVars, daf,
                   apiVars, extraVars>>

\* download_file on the first URL (n = 1) or, after it returned False, on the
\* second (n = 2). True: the server and is_online are recorded with
\* set_config_value. False twice: is_offline and set_config_value("is_online",
\* False), and the task ends.
UpdDownload(n) ==
    /\ upd.pc = (IF n = 1 THEN "primary" ELSE "fallback")
    /\ config_lock = "free"
    /\ \E outcome \in DownloadOutcomes :
          LET file == DownloadLeaves(upd.file, outcome) IN
          IF DownloadFinished(outcome) /\ FileAccepted(file)
          THEN /\ upd' = [upd EXCEPT !.pc = "launch", !.file = file, !.requests = @ + 1,
                                     !.downloaded = TRUE]
               /\ config_data' = ConfigWith(ConfigWith(config_data,
                                     "last_successful_server", upd.order[n]),
                                     "is_online", TRUE)
               /\ SaveConfigToFile(config_data')
          ELSE /\ upd' = [upd EXCEPT !.pc = IF n = 1 THEN "fallback" ELSE "done",
                                     !.file = file, !.requests = @ + 1,
                                     !.result = IF n = 1 THEN @ ELSE "download_failed",
                                     !.is_offline = IF n = 1 THEN @ ELSE TRUE]
               /\ IF n = 1
                  THEN UNCHANGED <<config_data, local_config>>
                  ELSE /\ config_data' = ConfigWith(config_data, "is_online", FALSE)
                       /\ SaveConfigToFile(config_data')
    /\ UNCHANGED <<preferred_server, remote, disk, config_lock, cm_is_online,
                   download_successful, download_complete, bin_file_urls,
                   side_to_filename, bin_files_downloaded, dl, asset, cached,
                   manifestFailed, cfgLog, assetLog, codecVars, linkVars, flasherVars,
                   versionVars, daf, apiVars, extraVars>>

\* `if os.path.exists(new_exe_path) and os.path.isfile(new_exe_path)`, then
\* subprocess.Popen([normalized_path]): the child is started, or Popen raises
\* and the current version keeps running.
UpdLaunch ==
    /\ upd.pc = "launch"
    /\ IF upd.file = "absent"
       THEN upd' = [upd EXCEPT !.pc = "done", !.result = "no_file"]
       ELSE \/ upd' = [upd EXCEPT !.pc = "exit", !.launched = TRUE]
            \/ upd' = [upd EXCEPT !.pc = "done", !.result = "launch_failed"]
    /\ UNCHANGED <<codecVars, linkVars, flasherVars, downloadVars, versionVars, daf,
                   apiVars, extraVars>>

\* time.sleep(0.2); os._exit(0)
UpdExit ==
    /\ upd.pc = "exit"
    /\ upd' = [upd EXCEPT !.pc = "exited", !.result = "exit"]
    /\ UNCHANGED <<codecVars, linkVars, flasherVars, downloadVars, versionVars, daf,
                   apiVars, extraVars>>

\* The outer `except Exception`: is_offline, set_config_value("is_online", False)
UpdExcept ==
    /\ upd.pc = "except"
    /\ config_lock = "free"
    /\ upd' = [upd EXCEPT !.pc = "done", !.result = "failed", !.is_offline = TRUE]
    /\ config_data' = ConfigWith(config_data, "is_online", FALSE)
    /\ SaveConfigToFile(config_data')
    /\ UNCHANGED <<preferred_server, remote, disk, config_lock, cm_is_online,
                   download_successful, download_complete, bin_file_urls,
                   side_to_filename, bin_files_downloaded, dl, asset, cached,
                   manifestFailed, cfgLog, assetLog, codecVars, linkVars, flasherVars,
                   versionVars, daf, apiVars, extraVars>>

-----------------------------------------------------------------------------
(***************************************************************************)
(* The pending response callback: SerialHandler.send_command and           *)
(* read_response as a client calls them                                    *)
(***************************************************************************)
MaxCalls == 3                   \* send_command calls made by the client

\* What a client passes as callback: None (the default) or a function
Callbacks == {"None", "handle_version_response", "on_response"}

RrIdle == [pc |-> "idle", last |-> "none"]

\* No client call has been made
ApiIdle ==
    /\ calls = <<>>
    /\ invoked = <<>>
    /\ rr = RrIdle

\* A client's send_command('km.version()', callback=callback)
CallSendCommand(callback) ==
    /\ Len(calls) < MaxCalls
    /\ SendCommand(callback)
    /\ Transmit(KmVersion, SendCommandFrame(KmVersion, <<>>))
    /\ calls' = Append(calls, callback)
    /\ UNCHANGED <<invoked, rr, upd, extraVars, handlerVars, codecVars, flasherVars, downloadVars,
                   versionVars, daf>>

\* read_response: `if self.response_callback:`. The attribute does not exist
\* before the first send_command (AttributeError); None ends the call.
RrCheck ==
    /\ rr.pc = "idle"
    /\ rr' = (IF response_callback = "unset" THEN [pc |-> "idle", last |-> "AttributeError"]
              ELSE IF response_callback = "None" THEN [pc |-> "idle", last |-> "nothing"]
              ELSE [pc |-> "call", last |-> rr.last])
    /\ rr' # rr
    /\ UNCHANGED <<calls, invoked, upd, extraVars, linkVars, codecVars, flasherVars, downloadVars,
                   versionVars, daf>>

\* read_response: `self.response_callback(response)`, the attribute read
\* again; calling None raises TypeError and ends the call.
RrCall ==
    /\ rr.pc = "call"
    /\ IF response_callback = "None"
       THEN /\ rr' = [pc |-> "idle", last |-> "TypeError"]
            /\ UNCHANGED invoked
       ELSE /\ rr' = [rr EXCEPT !.pc = "clear"]
            /\ invoked' = Append(invoked, response_callback)
    /\ UNCHANGED <<calls, upd, extraVars, linkVars, codecVars, flasherVars, downloadVars,
                   versionVars, daf>>

\* read_response: `self.response_callback = None`
RrClear ==
    /\ rr.pc = "clear"
    /\ response_callback' = "None"
    /\ rr' = [pc |-> "idle", last |-> "called"]
    /\ UNCHANGED <<calls, invoked, upd, extraVars, tx, handlerVars, codecVars, flasherVars,
                   downloadVars, versionVars, daf>>

-----------------------------------------------------------------------------
(***************************************************************************)
(* One pass of parse_uart_frames, an iteration of its while loop at a time *)
(***************************************************************************)
MaxPieces == 3                  \* frames and other bytes in one buffer

\* Bytes between frames: 0x00 and the second and first byte of the binary marker
OtherBytes == {0, 173, 222}

\* A byte that belongs to no frame; it has no unit
Others == {[bytes |-> <<b>>, unit |-> <<>>] : b \in OtherBytes}

ScanIdle == [pc |-> "idle", pieces |-> <<>>, data |-> <<>>, index |-> 0, lines |-> <<>>]

\* (the farther of the two next-occurrence indices)
ClosestHeader_Farthest(next_km, next_dead) ==
    IF next_km > next_dead THEN next_km ELSE next_dead

\* "Jump to the closest header": the other index when one is -1, else
\* min(next_km, next_dead)
ClosestHeader(next_km, next_dead) ==
    IF next_km = -1 THEN next_dead
    ELSE IF next_dead = -1 THEN next_km
    ELSE Min(next_km, next_dead)

\* One evaluation of `while index < len(data):` and of the loop body
ScanStep ==
    /\ scan.pc = "scan"
    /\ LET data  == scan.data
           index == scan.index
           stop  == [scan EXCEPT !.pc = "done"]
           frame(line, next) == [scan EXCEPT !.lines = Append(@, line), !.index = next]
       IN  scan' =
             IF index >= Len(data) THEN stop
             ELSE IF Slice(data, index, index + 3) = KM THEN
                 LET end_index == Find(data, CR, index) IN
                 IF end_index # -1
                 THEN frame(Utf8Ignore(Slice(data, index, end_index + 1)), end_index + 1)
                 ELSE stop
             ELSE IF Slice(data, index, index + 2) = DEAD THEN
                 IF index + 4 <= Len(data)
                 THEN LET size      == UnpackU16LE(Slice(data, index + 2, index + 4))
                          end_index == index + 4 + size
                      IN  IF end_index <= Len(data)
                          THEN frame(Utf8Ignore(Slice(data, index + 4, end_index)), end_index)
                          ELSE stop
                 ELSE stop
             ELSE
                 LET next_km   == Find(data, KM, index + 1)
                     next_dead == Find(data, DEAD, index + 1)
                 IN  IF next_km = -1 /\ next_dead = -1 THEN stop
                     ELSE [scan EXCEPT !.index = ClosestHeader(next_km, next_dead)]
    /\ UNCHANGED <<probe, out, app, apiVars, upd, versionVars, daf, codecVars, linkVars,
                   flasherVars, downloadVars>>

-----------------------------------------------------------------------------
(***************************************************************************)
(* Outbound frames: SerialHandler.write_to_serial and send_command         *)
(***************************************************************************)
MaxName == 3                    \* longest command name
MaxArg  == 2                    \* longest payload

NameBytes == {97, 98}           \* 'a', 'b'
ArgBytes  == {1, 2}

CommandNames == SeqsUpTo(NameBytes, MaxName) \ {<<>>}
Payloads     == SeqsUpTo(ArgBytes, MaxArg)

\* A client's write_to_serial(data)
CallWriteToSerial(data) ==
    /\ Transmit(data, WriteToSerialFrame(data))
    /\ UNCHANGED <<handlerVars, response_callback, codecVars, flasherVars,
                   downloadVars, restVars>>

\* A client's send_command(command, payload), callback left at None
CallSendCommandWith(command, payload) ==
    /\ SendCommand("None")
    /\ Transmit(command \o payload, SendCommandFrame(command, payload))
    /\ UNCHANGED <<handlerVars, codecVars, flasherVars, downloadVars, restVars>>

-----------------------------------------------------------------------------
(***************************************************************************)
(* Mirror selection: ConfigManager._select_fastest_server                  *)
(***************************************************************************)
MaxLatency == 3                 \* largest measured latency

\* What safe_ping stores: -1 for a failed probe, else the latency
Latencies == {-1} \cup (0..MaxLatency)

ProbeIdle == [pc |-> [n \in Servers |-> "none"], lat |-> [n \in Servers |-> -1],
              results |-> <<>>, fastest |-> "none"]

\* safe_ping: ping(host) and _parse_ping, in the server's own thread
ProbePing(name) ==
    /\ probe.pc[name] = "started"
    /\ \E l \in Latencies :
          probe' = [probe EXCEPT !.pc[name] = "pinged", !.lat[name] = l]
    /\ UNCHANGED <<scan, out, app, apiVars, upd, versionVars, daf, codecVars, linkVars,
                   flasherVars, downloadVars>>

\* safe_ping: results[name] = ...; a dict keeps its keys in insertion order
ProbeStore(name) ==
    /\ probe.pc[name] = "pinged"
    /\ probe' = [probe EXCEPT !.pc[name] = "stored", !.results = Append(@, name)]
    /\ UNCHANGED <<scan, out, app, apiVars, upd, versionVars, daf, codecVars, linkVars,
                   flasherVars, downloadVars>>

\* min(valid, key=valid.get): the first key, in iteration order, whose value
\* is the least
RECURSIVE FirstLeast(_, _)
FirstLeast(names, lat) ==
    IF Len(names) = 1 THEN names[1]
    ELSE LET rest == FirstLeast(Tail(names), lat)
         IN  IF lat[names[1]] <= lat[rest] THEN names[1] ELSE rest

\* valid = {k: v for k, v in results.items() if v >= 0};
\* fastest = min(valid, key=valid.get) if valid else "GitHub"
Fastest(results, lat) ==
    LET valid == SelectSeq(results, LAMBDA n : lat[n] >= 0)
    IN  IF valid = <<>> THEN "GitHub" ELSE FirstLeast(valid, lat)

\* Both threads joined: the selection, stored as preferred_server by __init__
ProbeSelect ==
    /\ \A n \in Servers : probe.pc[n] = "stored"
    /\ probe.fastest = "none"
    /\ probe' = [probe EXCEPT !.fastest = Fastest(probe.results, probe.lat)]
    /\ preferred_server' = probe'.fastest
    /\ UNCHANGED <<remote, local_config, disk, config_data, config_lock, cm_is_online,
                   download_successful, download_complete, bin_file_urls,
                   side_to_filename, bin_files_downloaded, dl, asset, cached,
                   manifestFailed, cfgLog, assetLog, scan, out, app, apiVars, upd,
                   versionVars,
                   daf, codecVars, linkVars, flasherVars>>

-----------------------------------------------------------------------------
(***************************************************************************)
(* The programmer run: the try/except/finally of flash_firmware_thread     *)
(***************************************************************************)
MaxLines == 3                   \* lines the programmer prints in one run

\* A line of the programmer's output: one that holds "Hash of data
\* verified.", one that holds "Leaving... WARNING: ESP32-S3", any other
OutputLines == {"hash", "leaving", "other"}

\* process.returncode
ReturnCodes == {0, 1, 2}

\* The status lines of a job
SuccessLine  == "Flashing completed successfully."
ErrorLine    == "Flashing error"
FailureLine  == "Flashing encountered errors."

\* process_failed = False, process = None, success_detected = False,
\* bootloader_warning_detected = False
OutIdle == [pc |-> "idle", returncode |-> 0, success_detected |-> FALSE,
            bootloader_warning_detected |-> FALSE, process_failed |-> FALSE,
            read |-> 0, lines |-> <<>>]

OutFrame == UNCHANGED <<scan, probe, app, apiVars, upd, versionVars, daf, codecVars,
                        linkVars, flasherVars, downloadVars>>

\* subprocess.Popen(esptool_args): the process starts, or Popen raises and the
\* except clause logs "Flashing error: ..." and sets process_failed.
OutPopen ==
    /\ out.pc = "popen"
    /\ \/ out' = [out EXCEPT !.pc = "streams"]
       \/ out' = [out EXCEPT !.pc = "finally", !.process_failed = TRUE,
                             !.lines = Append(@, ErrorLine)]
    /\ OutFrame

\* read_stream: one line of stdout or stderr
OutReadLine(line) ==
    /\ out.pc = "streams"
    /\ out.read < MaxLines
    /\ out' = [out EXCEPT
                 !.read = @ + 1,
                 !.success_detected = @ \/ line = "hash",
                 !.bootloader_warning_detected = @ \/ line = "leaving"]
    /\ OutFrame

\* process.wait() and the two joins: the process has exited and both pipes
\* were read to their end
OutExit(returncode) ==
    /\ out.pc = "streams"
    /\ out' = [out EXCEPT !.pc = "decide", !.returncode = returncode]
    /\ OutFrame

\* `process.returncode == 0 or success_detected or bootloader_warning_detected`
FlashSucceeded(returncode, success_detected, bootloader_warning_detected) ==
    returncode = 0 \/ success_detected \/ bootloader_warning_detected

\* The success line, or process_failed = True
OutDecide ==
    /\ out.pc = "decide"
    /\ out' = IF FlashSucceeded(out.returncode, out.success_detected,
                           out.bootloader_warning_detected)
              THEN [out EXCEPT !.pc = "finally", !.lines = Append(@, SuccessLine)]
              ELSE [out EXCEPT !.pc = "finally", !.process_failed = TRUE]
    /\ OutFrame

\* finally: `if process_failed and not bootloader_warning_detected`
OutFinally ==
    /\ out.pc = "finally"
    /\ out' = IF out.process_failed /\ ~out.bootloader_warning_detected
              THEN [out EXCEPT !.pc = "done", !.lines = Append(@, FailureLine)]
              ELSE [out EXCEPT !.pc = "done"]
    /\ OutFrame

-----------------------------------------------------------------------------
(***************************************************************************)
(* Closing the window: GUI.quit_application                                *)
(***************************************************************************)
\* Where the window can be: {"x": x, "y": y} of save_window_position
WindowPositions == {"100,100", "200,200"}

\* quit_application up to its wait: save_window_position (set_config_value
\* under config_lock, with its save), `monitoring_active = False`, then
\* stop_monitoring(), which finds monitoring not active and returns at once,
\* and logger.stop().
QuitApplication ==
    /\ app = "running"
    /\ config_lock = "free"
    /\ \E position \in WindowPositions :
          config_data' = ConfigWith(config_data, "window_position", position)
    /\ SaveConfigToFile(config_data')
    /\ monitoring_active' = FALSE
    /\ app' = "closing"
    /\ UNCHANGED <<monitoring_thread, mon, monCrashed, readers, is_connected,
                   serial_open, serial_connection, sh_is_flashing, sh_flashing_lock,
                   portVars, cmdVars>>
    /\ UNCHANGED <<preferred_server, remote, disk, config_lock, cm_is_online,
                   download_successful, download_complete, bin_file_urls,
                   side_to_filename, bin_files_downloaded, dl, asset, cached,
                   manifestFailed, cfgLog, assetLog>>
    /\ UNCHANGED <<scan, probe, out, apiVars, upd, versionVars, daf, codecVars,
                   flasherVars>>

\* `while self.flasher.is_flashing: time.sleep(0.1)`, then root.quit() and
\* root.destroy(): quit_application returns.
QuitReturns ==
    /\ app = "closing"
    /\ ~fl_is_flashing
    /\ app' = "quit"
    /\ UNCHANGED <<scan, probe, out, apiVars, upd, versionVars, daf, codecVars,
                   linkVars, flasherVars, downloadVars>>

-----------------------------------------------------------------------------
(***************************************************************************)
(* Specifications                                                          *)
(***************************************************************************)
\* SerialHandler.__init__ (buffer) with nothing on the wire
CodecConstructed ==
    /\ wire = <<>>
    /\ sent = <<>>
    /\ buffer = <<>>
    /\ log = <<>>

\* SerialHandler.__init__ followed by the start_monitoring() of the GUI's
\* constructor: one monitor_ports thread at the head of its loop.
LinkConstructed ==
    /\ monitoring_active = TRUE
    /\ monitoring_thread = 1
    /\ mon = [t \in MonIds |-> [pc |-> IF t = 1 THEN "loop" ELSE "none", attempt |-> 0,
                           com_port |-> NoPort, mode |-> "Normal"]]
    /\ monCrashed = FALSE
    /\ readers = 0
    /\ is_connected = FALSE
    /\ serial_open = FALSE
    /\ serial_connection = "None"
    /\ sh_is_flashing = FALSE
    /\ sh_flashing_lock = <<"free", 0>>
    /\ com_port = NoPort
    /\ current_mode = "Normal"
    /\ seen = {}
    /\ response_callback = "unset"
    /\ mcu_status = "none"
    /\ reply = "none"
    /\ tx = NoTx

\* Flasher.__init__
FlasherConstructed ==
    /\ fl_is_flashing = FALSE
    /\ fl_flashing_lock = 0
    /\ job = [j \in Jobs |-> [pc |-> "idle", contended |-> FALSE, entered |-> FALSE,
                              outcome |-> "none"]]
    /\ proc = [j \in Jobs |-> "none"]

\* ConfigManager.__init__ with nothing cached and no file on disk, before
\* download_all_files has taken a step.
DownloadConstructed ==
    /\ preferred_server = "GitHub"
    /\ remote = Doc(<<>>)
    /\ local_config = [exists |-> FALSE, data |-> EmptyConfig]
    /\ disk = [f \in AllFiles |-> "absent"]
    /\ config_data = EmptyConfig
    /\ config_lock = "free"
    /\ cm_is_online = FALSE
    /\ download_successful = FALSE
    /\ download_complete = FALSE
    /\ bin_file_urls = <<>>
    /\ side_to_filename = <<>>
    /\ bin_files_downloaded = <<>>
    /\ dl = [pc |-> "config", mirror |-> 1, attempt |-> 1, step |-> 0]
    /\ asset = [f \in AllFiles |-> IdleTask]
    /\ cached = EmptyConfig
    /\ manifestFailed = FALSE
    /\ cfgLog = <<>>
    /\ assetLog = [f \in AllFiles |-> <<>>]

\* No version comparison has been asked for
ClientsIdle ==
    /\ latest = <<>>
    /\ current = <<>>
    /\ differs = "none"
    /\ daf = DafIdle
    /\ ApiIdle
    /\ upd = UpdIdle

VersionIdle ==
    /\ ClientsIdle
    /\ scan = ScanIdle
    /\ probe = ProbeIdle
    /\ out = OutIdle
    /\ app = "running"

InitCodec ==
    /\ sent \in SeqsUpTo(Frames, MaxFrames)
    /\ wire = WireOf(sent)
    /\ buffer = <<>>
    /\ log = <<>>
    /\ LinkConstructed
    /\ ports = {}
    /\ FlasherConstructed
    /\ DownloadConstructed
    /\ VersionIdle

NextCodec == \E n \in 1..Len(wire) : HandleIncomingData(n)

SpecCodec == InitCodec /\ [][NextCodec]_vars

InitFlash ==
    /\ CodecConstructed
    /\ LinkConstructed
    /\ ports \in {{}, FlashPorts}
    /\ FlasherConstructed
    /\ DownloadConstructed
    /\ VersionIdle

NextFlash ==
    \/ \E t \in MonIds :
          MonLoop(t) \/ MonAcquire(t) \/ MonPoll(t) \/ MonConnect(t) \/ MonRelease(t)
    \/ ReadLoop
    \/ \E d \in FlashPorts : PlugUnplug(d)
    \/ \E j \in Jobs :
          \/ RequestFlash(j) \/ JobCheckFile(j) \/ JobEnter(j)
          \/ JobSetFlashingCheck(j) \/ JobSetFlashingAcquire(j)
          \/ JobCheckConnected(j) \/ JobStopMonitoring(j) \/ JobJoin(j)
          \/ JobPopen(j) \/ JobProcessExit(j) \/ JobFinally(j)
          \/ JobSetFlashingRelease(j) \/ JobStartMonitoring(j)

SpecFlash == InitFlash /\ [][NextFlash]_vars

\* Files a previous session may have left in the download folder
DiskAtStart == {"absent", "partial", "complete"}

\* ConfigManager.__init__: _select_fastest_server, load_local_config (the
\* cached manifest, download_successful and is_online from it),
\* _parse_firmware_info, and the download thread about to start.
ConfigManagerInit(servers, docs, configs, files) ==
    /\ CodecConstructed
    /\ LinkConstructed
    /\ ports = {}
    /\ FlasherConstructed
    /\ preferred_server \in servers
    /\ remote \in docs
    /\ local_config \in configs
    /\ disk \in [AllFiles -> files]
    /\ config_data = (IF local_config.exists THEN local_config.data ELSE EmptyConfig)
    /\ config_lock = "free"
    /\ download_successful = local_config.exists
    /\ cm_is_online = (local_config.exists /\ local_config.data.is_online)
    /\ download_complete = FALSE
    /\ LET d == ParseFirmwareInfo(config_data,
                                  [urls |-> <<>>, sides |-> <<>>, downloaded |-> <<>>])
       IN  /\ bin_file_urls = d.urls
           /\ side_to_filename = d.sides
           /\ bin_files_downloaded = d.downloaded
    /\ dl = [pc |-> "config", mirror |-> 1, attempt |-> 1, step |-> 0]
    /\ asset = [f \in AllFiles |-> IdleTask]
    /\ cached = config_data
    /\ manifestFailed = FALSE
    /\ cfgLog = <<>>
    /\ assetLog = [f \in AllFiles |-> <<>>]
    /\ VersionIdle

InitDownload == ConfigManagerInit(Servers, RemoteDocs, LocalConfigs, DiskAtStart)

NextDownload ==
    \/ FetchConfigAttempt
    \/ ParseStep
    \/ AfterParse
    \/ \E f \in AllFiles : AssetStart(f) \/ AssetFetchAttempt(f)
    \/ Aggregate
    \/ SetDownloadComplete

SpecDownload == InitDownload /\ [][NextDownload]_vars

\* The link manager alone, with any port of the table (or another device's)
\* appearing and disappearing.
InitLink ==
    /\ CodecConstructed
    /\ LinkConstructed
    /\ ports = {}
    /\ FlasherConstructed
    /\ DownloadConstructed
    /\ VersionIdle

NextLink ==
    \/ \E t \in MonIds :
          MonLoop(t) \/ MonAcquire(t) \/ MonPoll(t) \/ MonConnect(t) \/ MonRelease(t)
    \/ ReadLoop
    \/ DeviceReplies
    \/ \E d \in HwIds : PlugUnplug(d)

SpecLink == InitLink /\ [][NextLink]_vars

\* The download pipeline with one flash request for a side arriving at any
\* point of it; the mirrors serve the manifest with the left side alone, the
\* cache holds nothing, that manifest or the one with both sides, and a file
\* is there in full or not at all.
PlainDocs ==
    {d \in RemoteDocs :
        \A i \in DOMAIN d.firmware :
           d.firmware[i][2].name \in {"A", "B"} /\ d.firmware[i][2].fallback_url # ""}

RequestDocs == {d \in PlainDocs : Len(d.firmware) = 1}

RequestConfigs ==
    {l \in LocalConfigs :
        l.exists => /\ l.data.firmware \in {d.firmware : d \in PlainDocs}
                    /\ "window_position" \notin l.data.keys}

InitRequest ==
    ConfigManagerInit({"GitHub"}, RequestDocs, RequestConfigs, {"absent", "complete"})

NextRequest ==
    \/ NextDownload
    \/ \E side \in Sides : DafRequest(side)
    \/ DafReadSide
    \/ DafReadUrls
    \/ DafIsBinDownloaded
    \/ DafOnlineCheck
    \/ \E n \in 1..2 : DafFetch(n)

SpecRequest == InitRequest /\ [][NextRequest]_vars

InitVersion ==
    /\ CodecConstructed
    /\ LinkConstructed
    /\ ports = {}
    /\ FlasherConstructed
    /\ DownloadConstructed
    /\ latest \in VersionStrings
    /\ current \in VersionStrings
    /\ differs = "none"
    /\ daf = DafIdle
    /\ ApiIdle
    /\ upd = UpdIdle
    /\ scan = ScanIdle
    /\ probe = ProbeIdle
    /\ out = OutIdle
    /\ app = "running"

NextVersion == CallIsDifferentVersion

SpecVersion == InitVersion /\ [][NextVersion]_vars

\* A client thread calling send_command and another calling read_response on
\* a constructed SerialHandler
InitCommand ==
    /\ CodecConstructed
    /\ LinkConstructed
    /\ ports = {}
    /\ FlasherConstructed
    /\ DownloadConstructed
    /\ VersionIdle

NextCommand ==
    \/ \E callback \in Callbacks : CallSendCommand(callback)
    \/ RrCheck
    \/ RrCall
    \/ RrClear

SpecCommand == InitCommand /\ [][NextCommand]_vars

\* The download pipeline and the update check started next to it; after
\* os._exit(0) no thread of the process takes a step.
InitUpdate ==
    ConfigManagerInit({"GitHub"}, RequestDocs, RequestConfigs, {"absent", "complete"})

NextUpdate ==
    \/ Running /\ NextDownload
    \/ UpdStart
    \/ UpdWait
    \/ UpdOnlineCheck
    \/ UpdCompare
    \/ UpdRemove
    \/ \E n \in 1..2 : UpdDownload(n)
    \/ UpdLaunch
    \/ UpdExit
    \/ UpdExcept

SpecUpdate == InitUpdate /\ [][NextUpdate]_vars

\* One buffer made of frames and of other bytes, decoded
InitScan ==
    /\ CodecConstructed
    /\ LinkConstructed
    /\ ports = {}
    /\ FlasherConstructed
    /\ DownloadConstructed
    /\ ClientsIdle
    /\ \E pieces \in SeqsUpTo(Frames \cup Others, MaxPieces) :
          scan = [pc |-> "scan", pieces |-> pieces, data |-> WireOf(pieces),
                  index |-> 0, lines |-> <<>>]
    /\ probe = ProbeIdle
    /\ out = OutIdle
    /\ app = "running"

NextScan == ScanStep

SpecScan == InitScan /\ [][NextScan]_vars

\* The link manager with the board coming and going, and client threads
\* calling write_to_serial and send_command
NextTx ==
    \/ \E t \in MonIds :
          MonLoop(t) \/ MonAcquire(t) \/ MonPoll(t) \/ MonConnect(t) \/ MonRelease(t)
    \/ ReadLoop
    \/ \E d \in FlashPorts : PlugUnplug(d)
    \/ \E data \in Payloads : CallWriteToSerial(data)
    \/ \E command \in CommandNames, payload \in Payloads :
          CallSendCommandWith(command, payload)

SpecTx == InitLink /\ [][NextTx]_vars

\* ConfigManager.__init__ inside _select_fastest_server, both probe threads
\* started
InitProbe ==
    /\ DownloadConstructed
    /\ CodecConstructed
    /\ LinkConstructed
    /\ ports = {}
    /\ FlasherConstructed
    /\ ClientsIdle
    /\ scan = ScanIdle
    /\ out = OutIdle
    /\ app = "running"
    /\ probe = [ProbeIdle EXCEPT !.pc = [n \in Servers |-> "started"]]

NextProbe ==
    \/ \E name \in Servers : ProbePing(name) \/ ProbeStore(name)
    \/ ProbeSelect

SpecProbe == InitProbe /\ [][NextProbe]_vars

\* A flash job about to start the programmer
InitOutcome ==
    /\ CodecConstructed
    /\ LinkConstructed
    /\ ports = {}
    /\ FlasherConstructed
    /\ DownloadConstructed
    /\ ClientsIdle
    /\ scan = ScanIdle
    /\ probe = ProbeIdle
    /\ out = [OutIdle EXCEPT !.pc = "popen"]
    /\ app = "running"

NextOutcome ==
    \/ OutPopen
    \/ \E line \in OutputLines : OutReadLine(line)
    \/ \E returncode \in ReturnCodes : OutExit(returncode)
    \/ OutDecide
    \/ OutFinally

SpecOutcome == InitOutcome /\ [][NextOutcome]_vars

\* The link manager with the board coming and going, and the user closing
\* the window; the threads run until quit_application has returned.
NextQuit ==
    \/ /\ app # "quit"
       /\ \/ \E t \in MonIds :
                MonLoop(t) \/ MonAcquire(t) \/ MonPoll(t) \/ MonConnect(t) \/ MonRelease(t)
          \/ ReadLoop
          \/ \E d \in FlashPorts : PlugUnplug(d)
    \/ QuitApplication
    \/ QuitReturns

SpecQuit == InitLink /\ [][NextQuit]_vars

\* The update check next to the link manager and one flash job, the board
\* plugged in or not; the manifest of the last session is in the cache and
\* the download thread is still before its first request (the update check
\* does not wait for it longer than 30 s).
InitExit ==
    ConfigManagerInit({"GitHub"}, RequestDocs, {l \in RequestConfigs : l.exists},
                      {"complete"})

NextExit ==
    \/ /\ Running
       /\ \/ \E t \in MonIds :
                MonLoop(t) \/ MonAcquire(t) \/ MonPoll(t) \/ MonConnect(t) \/ MonRelease(t)
          \/ ReadLoop
          \/ \E d \in FlashPorts : PlugUnplug(d)
          \/ RequestFlash(1) \/ JobCheckFile(1) \/ JobEnter(1)
          \/ JobSetFlashingCheck(1) \/ JobSetFlashingAcquire(1)
          \/ JobCheckConnected(1) \/ JobStopMonitoring(1) \/ JobJoin(1)
          \/ JobPopen(1) \/ JobProcessExit(1) \/ JobFinally(1)
          \/ JobSetFlashingRelease(1) \/ JobStartMonitoring(1)
    \/ UpdStart
    \/ UpdWait
    \/ UpdOnlineCheck
    \/ UpdCompare
    \/ UpdRemove
    \/ \E n \in 1..2 : UpdDownload(n)
    \/ UpdLaunch
    \/ UpdExit
    \/ UpdExcept

SpecExit == InitExit /\ [][NextExit]_vars

\* The download thread alone, which takes a step whenever it can: every
\* request ends within its timeout and every wait between attempts is 2 s.
InitPipeline ==
    ConfigManagerInit(Servers, PlainDocs, RequestConfigs, {"absent", "complete"})

SpecPipeline == InitPipeline /\ [][NextDownload]_vars /\ WF_vars(NextDownload)

-----------------------------------------------------------------------------
(***************************************************************************)
(* Claims                                                                  *)
(***************************************************************************)
\* C1: once every byte of a concatenation of well-formed frames has been
\* delivered, in whatever chunks, the logged lines are exactly the frames
\* sent, in order.
C1_ChunkedDecodeExact == (wire = <<>>) => (log = UnitsOf(sent))

\* C2: at most one external programmer process is started and not yet
\* finished at any time.
C2_OneProgrammerInFlight == Cardinality({j \in Jobs : proc[j] = "running"}) <= 1

\* a programmer runs for one job while another flash request waits for it
C2_Witness ==
    \E j, k \in Jobs : proc[j] = "running" /\ job[k].pc = "wait_lock"

\* C3: a flash request issued while another flash job is active never starts
\* an external programmer process, neither at once nor after the active job.
C3_ContendedRequestNeverStarts ==
    \A j \in Jobs : job[j].contended => proc[j] = "none"

\* A monitor_ports thread is outside its poll section: ended, at the head of
\* its loop, or waiting for the flashing lock.
DiscoveryStopped(t) == mon[t].pc \in {"none", "loop", "lock"}

\* C4: while the external programmer is started or running, the link manager
\* holds no open serial connection, no discovery loop is polling or
\* connecting, and no read task is alive.
C4_LinkReleasedWhileProgramming ==
    (\E j \in Jobs : proc[j] = "running") =>
        /\ serial_connection = "None"
        /\ readers = 0
        /\ \A t \in MonIds : DiscoveryStopped(t)

\* C5: while SerialHandler.is_flashing is set, no monitor_ports thread calls
\* auto_connect or opens a port.
C5_NoConnectAttemptWhileFlashing ==
    [][sh_is_flashing =>
          ~ \E t \in MonIds : \/ MonCallsAutoConnect(t) /\ MonPoll(t)
                              \/ MonOpensPort(t) /\ MonConnect(t)]_vars

\* C6: once a flash job that entered the exclusive section has ended and no
\* job is in the section, the flashing flag is clear, monitoring_active is
\* true and a discovery loop thread is alive.
C6_MonitoringRestoredAfterFlash ==
    ((\E j \in Jobs : job[j].pc = "done" /\ job[j].entered) /\ ~FlashActive) =>
        /\ ~sh_is_flashing
        /\ monitoring_active
        /\ \E t \in MonIds : MonAlive(t)

\* The attempts of one retrying fetch, in order, follow the policy: a success
\* is the last attempt made; each mirror is tried at most StopAfterAttempt
\* times; the other mirror is tried only after StopAfterAttempt failures on
\* the preferred one.
FollowsRetryPolicy(attempts) ==
    LET onPreferred == {i \in DOMAIN attempts : attempts[i][1] = preferred_server}
        onOther     == DOMAIN attempts \ onPreferred
    IN  /\ Cardinality(onPreferred) <= StopAfterAttempt
        /\ Cardinality(onOther) <= StopAfterAttempt
        /\ \A i \in DOMAIN attempts : attempts[i][2] => i = Len(attempts)
        /\ \A i \in onOther :
              /\ i > StopAfterAttempt
              /\ \A k \in 1..StopAfterAttempt : attempts[k] = <<preferred_server, FALSE>>

Succeeded(attempts) == attempts # <<>> /\ attempts[Len(attempts)][2]

PreferredExhausted(attempts) ==
    /\ Len(attempts) = StopAfterAttempt
    /\ \A k \in DOMAIN attempts : attempts[k] = <<preferred_server, FALSE>>

C8_OfflineWhenManifestFails ==
    (download_complete /\ manifestFailed) =>
        /\ ~IsOnlineStatus
        /\ local_config.exists
        /\ "is_online" \in local_config.data.keys
        /\ ~local_config.data.is_online

\* C9: when the manifest fetch failed on both mirrors, no request is made for
\* any binary asset, and the manifest read is still the cached one.
C9_NoAssetFetchWhenManifestFails ==
    manifestFailed =>
        /\ \A f \in AllFiles : assetLog[f] = <<>>
        /\ FirmwareOf(config_data) = FirmwareOf(cached)

DictAsSet(d) == {d[i] : i \in DOMAIN d}

\* C10: the derived dictionaries hold exactly what the current manifest's
\* firmware section yields (one entry per side with a name and both URLs, and
\* nothing left from an earlier manifest), and deriving again from the
\* unchanged manifest gives the same asset set and side mapping.
C10_DerivationReplacesAndRepeats ==
    dl.pc # "parse" =>
    LET fw       == FirmwareOf(config_data)
        complete == {i \in DOMAIN fw : /\ fw[i][2].name # ""
                                       /\ fw[i][2].primary_url # ""
                                       /\ fw[i][2].fallback_url # ""}
        again    == ParseFirmwareInfo(config_data, Derived)
    IN  /\ DictAsSet(side_to_filename) =
              {<<fw[i][1], FileName(fw[i][2].name)>> : i \in complete}
        /\ DKeys(bin_file_urls) = {FileName(fw[i][2].name) : i \in complete}
        /\ \A k \in DOMAIN bin_file_urls :
              \* the URLs of the last side that names the file
              \E i \in complete :
                 /\ bin_file_urls[k] =
                       <<FileName(fw[i][2].name),
                         [primary |-> fw[i][2].primary_url,
                          fallback |-> fw[i][2].fallback_url]>>
                 /\ \A m \in complete :
                       FileName(fw[m][2].name) = bin_file_urls[k][1] => m <= i
        /\ DKeys(bin_files_downloaded) = DKeys(bin_file_urls)
        /\ again.sides = side_to_filename
        /\ again.urls = bin_file_urls

\* a fetched manifest replaced a cached one that listed a side the new one
\* does not yield
C10_Witness ==
    /\ Succeeded(cfgLog)
    /\ LET before == ParseFirmwareInfo(cached, [urls |-> <<>>, sides |-> <<>>,
                                                downloaded |-> <<>>])
       IN  /\ DKeys(before.sides) \ DKeys(side_to_filename) # {}
           /\ DKeys(before.urls) \ DKeys(bin_file_urls) # {}

\* s is core with only whitespace added at its two ends, and core has no
\* whitespace at either end.
PaddingOf(s, core) ==
    /\ \E i \in 0..Len(s) :
          /\ i + Len(core) <= Len(s)
          /\ \A k \in 1..Len(s) :
                IF k > i /\ k <= i + Len(core) THEN s[k] = core[k - i]
                                               ELSE s[k] \in Whitespace
    /\ core # <<>> => (core[1] \notin Whitespace /\ core[Len(core)] \notin Whitespace)

\* C11 (as stated): is_different_version returns true exactly when the two
\* strings are not identical character for character.
C11_ExactStringComparison ==
    differs # "none" => (differs = "True" <=> latest # current)

\* C11 (amended): is_different_version returns true exactly when the two
\* strings differ once the whitespace at both ends of each is left out; no
\* numeric ordering: "2.7"/"2.7" equal, "2.7"/"2.8" and "2.70"/"2.7" different.
C11_ComparisonModuloOuterWhitespace ==
    differs # "none" =>
        /\ differs = "False" <=>
              \E core \in VersionTexts : PaddingOf(latest, core) /\ PaddingOf(current, core)
        /\ (latest = <<"2", ".", "7">> /\ current = <<"2", ".", "7">>) => differs = "False"
        /\ (latest = <<"2", ".", "7">> /\ current = <<"2", ".", "8">>) => differs = "True"
        /\ (latest = <<"2", ".", "7", "0">> /\ current = <<"2", ".", "7">>) => differs = "True"

C11_Witness ==
    /\ differs = "False"
    /\ latest = <<" ", "2", ".", "7">>
    /\ current = <<"2", ".", "7", "\t">>

\* C12: when auto_connect opens the port that the scan of the table found, the
\* link is connected and current_mode is the mode of the first table entry,
\* in table order, whose hardware id was among the enumerated ports.
C12_ModeOfFirstMatchingEntry ==
    [][(~is_connected /\ is_connected') =>
          LET hits == {i \in DOMAIN KNOWN_DEVICES :
                         <<KNOWN_DEVICES[i].vid, KNOWN_DEVICES[i].pid>> \in seen}
              first == CHOOSE i \in hits : \A k \in hits : i <= k
          IN  /\ hits # {}
              /\ serial_open' /\ serial_connection' = "open"
              /\ current_mode' = KNOWN_DEVICES[first].mode
              /\ com_port' = <<KNOWN_DEVICES[first].vid, KNOWN_DEVICES[first].pid>>
              /\ com_port' \in ports]_vars

\* a board with the hardware id of table entry 4 plugged in next to a device
\* the table does not list: connected in mode Flash
C12_Witness ==
    /\ is_connected
    /\ current_mode = "Flash"
    /\ seen = {<<"303A", "1001">>, <<"10C4", "EA60">>}
    /\ com_port = <<"303A", "1001">>

\* C13: a flash request for a side whose binary is on disk and non-empty makes
\* no network request and ends by handing that file to flash_firmware.
C13_LocalBinaryFlashedWithoutNetwork ==
    (daf.pc # "idle" /\ daf.stable /\ daf.local # "") =>
        /\ daf.net = 0
        /\ daf.pc = "done" => (daf.result = "flash" /\ daf.path = daf.local)

\* Disconnect handling has been done
DisconnectHandled ==
    /\ ~is_connected /\ ~serial_open
    /\ serial_connection = "None"
    /\ mcu_status = "disconnected"

\* C14: a failing write of the keep-alive command, like a failing read of the
\* read task, is followed at once by disconnect handling: port closed and
\* dropped, is_connected and serial_open false, the status observer told.
C14_IoFailureDisconnects ==
    [][/\ \A t \in MonIds :
            (KeepAlive(t) /\ WriteRaises /\ MonLoop(t)) => DisconnectHandled'
       /\ (readers > 0 /\ ReadLoopRuns /\ ReadRaises /\ ReadLoop) => DisconnectHandled'
      ]_vars

\* fetch_config or a download_file task has been entered and has not returned
NetworkFetchInProgress == dl.pc \in {"config", "assets"}

\* C15: the manifest guard is never held while a network fetch is in
\* progress, so that get_config_value, is_online_status, get_firmware_info and
\* is_bin_downloaded return without waiting for the network.
C15_GuardFreeDuringFetch ==
    NetworkFetchInProgress => config_lock = "free"

\* C16: no reader observes a partially rebuilt asset set. For a side that the
\* cached and the served manifest describe alike, get_firmware_info always
\* finds the side in the side mapping and the file's URLs in the URL mapping.
C16_ReadersSeeWholeAssetSet ==
    daf.stable =>
        /\ daf.result # "no_info"
        /\ (daf.pc \in {"is_bin", "online", "primary", "fallback"}) => daf.urls # <<>>

\* C17: in every reachable state at most one monitor_ports thread and at most
\* one serial_communication_thread are alive.
C17_OneDiscoveryLoopOneReadTask ==
    /\ Cardinality({t \in MonIds : MonAlive(t)}) <= 1
    /\ readers <= 1

\* The read task takes the reply that is waiting in the port
ReplyConsumed == reply = "sent" /\ reply' = "read"

\* C18: a reply of the device to the keep-alive query is routed to the pending
\* callback: the step that takes the reply out of the port runs
\* handle_version_response and leaves the pending slot cleared.
C18_ReplyRoutedToCallback ==
    [][ReplyConsumed => response_callback' = "None"]_vars

\* C19: every send_command leaves in the pending slot the callback it was
\* given, whatever was pending before, and read_response only ever calls the
\* callback of the most recent send_command: a callback that was overwritten
\* while pending is not called afterwards.
C19_SlotHoldsMostRecentCallback ==
    [][/\ (calls' # calls) => response_callback' = calls'[Len(calls')]
       /\ (invoked' # invoked) =>
              /\ calls # <<>>
              /\ invoked'[Len(invoked')] = calls[Len(calls)]
      ]_vars

\* a pending callback was overwritten by another one, which was then called
C19_Witness ==
    /\ Len(calls) >= 2
    /\ calls[1] \notin {"None", calls[2]}
    /\ invoked = <<calls[2]>>

\* No download was requested, no child was launched, the process runs
NoUpdateActivity == upd.requests = 0 /\ ~upd.launched /\ Running

\* C20: the process exits only after download_file stored a non-empty
\* executable and the executable was launched; when the update check found
\* the system offline, or the manifest's version equal to the installed one,
\* nothing is downloaded, nothing is launched and the process does not exit.
C20_ExitOnlyAfterDownloadAndLaunch ==
    /\ ~Running => (upd.downloaded /\ upd.file = "nonempty" /\ upd.launched)
    /\ upd.result = "offline" => NoUpdateActivity
    /\ upd.latest = DEFAULT_VERSION => NoUpdateActivity

\* the process has exited after the first download failed and the second
\* one stored the executable
C20_Witness == ~Running /\ upd.requests = 2

\* How a check that got as far as the self-update path ends in failure
UpdateFailures == {"download_failed", "no_file", "launch_failed", "failed"}

\* C21: any failure on the self-update path marks the system offline
\* (Updater.is_offline set, the manifest's is_online false) and leaves the
\* process running.
C21_UpdateFailureMarksOffline ==
    [][(upd.result = "none" /\ upd'.result \in UpdateFailures) =>
          /\ upd'.is_offline
          /\ ~config_data'.is_online
          /\ Running'
      ]_vars

\* C22: the update check reads the manifest (online status, version) only
\* after the completion signal of the download pipeline has been set.
C22_ReadsAfterCompletionSignal ==
    (upd.pc \notin {"idle", "wait"}) => upd.waited

\* The thread is inside auto_connect with the link connected: with one
\* monitor_ports thread, the call it is in has opened the port.
InCallThatConnected(t) == mon[t].pc = "connect" /\ is_connected

\* C23: an auto_connect call makes at most retry_attempts open attempts, and
\* its first successful open is its last attempt: once the call has opened
\* the port, its loop does not come to open a port again.
C23_AutoConnectBounded ==
    [][\A t \in MonIds :
          /\ mon'[t].attempt <= RetryAttempts
          /\ InCallThatConnected(t) => ~MonOpensPort(t)'
      ]_vars

\* No device is connected and no port has been discovered since construction
LinkDisconnected == ~is_connected /\ com_port = NoPort

\* C24: a flash attempted while the link manager is disconnected is rejected
\* and the external programmer is not started.
C24_NoFlashWhileDisconnected ==
    [][\A j \in Jobs : (LinkDisconnected /\ proc[j] # "running") => proc'[j] # "running"]_vars

\* No flash job is between its request and its end, and neither flashing
\* flag is set
NoFlashInProgress ==
    /\ ~fl_is_flashing /\ ~sh_is_flashing
    /\ \A j \in Jobs : job[j].pc \in {"idle", "done"}

\* C25: the link machine has no terminal state: while monitoring is active
\* and no flash is in progress, a monitor_ports thread is alive to poll for
\* the device and connect to it again.
C25_DiscoveryLoopAlive ==
    (monitoring_active /\ NoFlashInProgress) => \E t \in MonIds : MonAlive(t)

\* The bytes handed to handle_incoming_data so far
Received == SubSeq(WireOf(sent), 1, Len(WireOf(sent)) - Len(wire))

\* Of those bytes, the ones after the last frame received in full: the start
\* of a frame whose rest is still to come
Unconsumed ==
    LET whole == {k \in 0..Len(sent) : Len(WireOf(SubSeq(sent, 1, k))) <= Len(Received)}
        last  == CHOOSE k \in whole : \A m \in whole : m <= k
    IN  SubSeq(Received, Len(WireOf(SubSeq(sent, 1, last))) + 1, Len(Received))

\* C26: after each handle_incoming_data call the buffer holds exactly the
\* bytes not yet consumed by a complete frame: nothing of the frames decoded,
\* everything from the marker of an incomplete frame onward.
C26_BufferKeepsIncompleteFrame == buffer = Unconsumed

\* The offsets of the buffer taken by piece i (0-based, as the code counts)
OffsetsOf(pieces, i) ==
    LET start == Len(WireOf(SubSeq(pieces, 1, i - 1)))
    IN  start..(start + Len(pieces[i].bytes) - 1)

\* No marker starts at an offset that lies outside the frames
NoMarkerOutsideFrames ==
    \A i \in DOMAIN scan.pieces :
       scan.pieces[i] \in Others =>
          \A o \in OffsetsOf(scan.pieces, i) :
             /\ Slice(scan.data, o, o + 3) # KM
             /\ Slice(scan.data, o, o + 2) # DEAD

MarkerAt(o) ==
    Slice(scan.data, o, o + 3) = KM \/ Slice(scan.data, o, o + 2) = DEAD

LaterMarkers == {o \in (scan.index + 1)..(Len(scan.data) - 1) : MarkerAt(o)}

\* The pass stands on a byte where neither marker starts
AtOtherByte ==
    scan.pc = "scan" /\ scan.index < Len(scan.data) /\ ~MarkerAt(scan.index)

FramesOf(pieces) == SelectSeq(pieces, LAMBDA p : p \in Frames)

IsPrefix(a, b) == Len(a) <= Len(b) /\ SubSeq(b, 1, Len(a)) = a

C28_WrittenFrameWellFormed ==
    tx.written # <<>> =>
        /\ tx.written = DEAD \o <<Len(tx.data) % 256, (Len(tx.data) \div 256) % 256>>
                              \o tx.data
        /\ ParseUartFrames(tx.written) = <<Utf8Ignore(tx.data)>>

\* C29: the mirror selected is the host whose measured latency is strictly
\* lower; when both probes failed, or both answered with the same latency,
\* it is GitHub, in whichever order the two probe threads finished.
C29_LowerLatencyOrFirstHost ==
    probe.fastest # "none" =>
        LET github == probe.lat["GitHub"]
            gitee  == probe.lat["Gitee"]
        IN  /\ (github >= 0 /\ gitee >= 0 /\ github < gitee) => probe.fastest = "GitHub"
            /\ (github >= 0 /\ gitee >= 0 /\ gitee < github) => probe.fastest = "Gitee"
            /\ (github < 0 /\ gitee < 0) => probe.fastest = "GitHub"
            /\ (github >= 0 /\ gitee = github) => probe.fastest = "GitHub"

\* cfg is the document the mirror served, marked online, with the mirror
\* that answered and the window position `before` held, if it held one
ManifestAsFetched(cfg, before, server) ==
    /\ "firmware" \in cfg.keys /\ cfg.firmware = remote.firmware
    /\ "is_online" \in cfg.keys /\ cfg.is_online
    /\ "last_successful_server" \in cfg.keys
    /\ cfg.last_successful_server = Lower(server)
    /\ "window_position" \in before.keys =>
          "window_position" \in cfg.keys /\ cfg.window_position = before.window_position
    /\ cfg.keys \subseteq
          remote.keys \cup {"is_online", "last_successful_server", "window_position"}

C31_OneOutcomeLine ==
    out.pc = "done" =>
        /\ Len(out.lines) = 1
        /\ out.lines[1] \in {SuccessLine, FailureLine}
        /\ out.lines[1] = SuccessLine <=>
              (out.returncode = 0 \/ out.success_detected \/ out.bootloader_warning_detected)

\* C32: the download of the new executable goes to the other mirror only
\* after StopAfterAttempt requests to the first one have failed, and gives
\* up only after as many to the other.
C32_UpdaterRetryThenFallback ==
    [][/\ (upd.pc = "primary" /\ upd'.pc = "fallback") =>
             upd'.requests = StopAfterAttempt
       /\ (upd.pc = "fallback" /\ upd'.result = "download_failed") =>
             upd'.requests = 2 * StopAfterAttempt]_vars

\* What LOCAL_CONFIG_PATH holds is config_data; with no file, config_data is
\* still empty
FileHoldsManifest ==
    IF local_config.exists THEN local_config.data = config_data
                           ELSE config_data = EmptyConfig

\* C33: whenever the guard of the manifest is free, the persisted file
\* equals the manifest in memory, however the saves of the download
\* pipeline and the set_config_value calls of other threads interleave.
C33_FileEqualsManifest == config_lock = "free" => FileHoldsManifest

\* A release() of the flashing lock made while nobody held it
ReleasedUnheld ==
    \/ ~monCrashed /\ monCrashed'
    \/ \E j \in Jobs : job[j].outcome # "crashed" /\ job'[j].outcome = "crashed"

\* A flash job's set_flashing(False) released the lock a discovery loop held
JobReleasedMonitorsLock ==
    /\ sh_flashing_lock[1] = "monitor"
    /\ sh_flashing_lock' = <<"free", 0>>
    /\ \E j \in Jobs : job[j].pc = "sf_release" /\ job'[j].pc # "sf_release"

\* set_flashing(True) of job j returns
SetFlashingTrueReturns(j) ==
    job[j].pc \in {"sf_check", "sf_acquire"} /\ job'[j].pc = "chk_conn"

\* C34: whatever the interleaving of set_flashing with the discovery loop's
\* own use of the flashing lock, the lock is never released while unheld,
\* set_flashing(False) never releases an acquisition of the discovery loop,
\* and set_flashing(True) returns with the lock held for the flash job.
C34_FlashingLockDiscipline ==
    [][/\ ~ReleasedUnheld
       /\ ~JobReleasedMonitorsLock
       /\ \A j \in Jobs : SetFlashingTrueReturns(j) => sh_flashing_lock' = <<"flasher", j>>
      ]_vars

\* The manifest fetch is over: a mirror answered, or both failed
ManifestResolved == Succeeded(cfgLog) \/ manifestFailed

\* The flags of the assets are those of their tasks' results
ResultsAggregated ==
    /\ \A f \in AllFiles : asset[f].st \in {"none", "done"}
    /\ \A i \in DOMAIN bin_file_urls :
          /\ DHas(bin_files_downloaded, bin_file_urls[i][1])
          /\ DGet(bin_files_downloaded, bin_file_urls[i][1])
                = (asset[bin_file_urls[i][1]].result # "None")

C36_ExitWithPortReleased ==
    upd.pc = "exited" =>
        /\ \A j \in Jobs : proc[j] # "running"
        /\ serial_connection # "open"

\* C37: when quit_application has returned, no discovery loop thread is
\* running and the serial connection is not open.
C37_QuitStopsAndCloses ==
    app = "quit" =>
        /\ \A t \in MonIds : ~MonAlive(t)
        /\ serial_connection # "open"

\* C38: once a mutation of the manifest is over, is_online_status() returns
\* what the manifest's is_online field holds, whether the download pipeline
\* or a set_config_value("is_online", v) of the flasher or the updater
\* stored it.
C38_StatusAgreesWithField ==
    (config_lock = "free" /\ "is_online" \in config_data.keys) =>
        IsOnlineStatus = config_data.is_online


\* C39: a binary whose download was interrupted is never treated as present:
\* an asset the pipeline reports as downloaded or skipped, and a file that
\* is_bin_downloaded accepts (the path download_and_flash hands to the
\* programmer from its pre-downloaded branch), was fetched completely.
C39_InterruptedNeverPresent ==
    \A f \in AllFiles :
        /\ (asset[f].st = "done" /\ asset[f].result # "None") => disk[f] = "complete"
        /\ IsBinDownloaded(f) => disk[f] = "complete"

=============================================================================
